---------------------------- MODULE Spec2Model ----------------------------
(***************************************************************************)
(* Model of the article-to-team extraction pipeline of pokemon-jp-summariser *)
(*                                                                         *)
(*   react-app/server.js                      the Express server: result   *)
(*       cache, article fetch, EV spread validation, response parser and   *)
(*       the POST /api/summarize handler                                   *)
(*   react-app/src/services/geminiService.ts  the browser-side client with *)
(*       its bounded retry loop and proxy fetch                            *)
(*   react-app/src/hooks/useGemini.ts         the hook around the client   *)
(*   react-app/src/context/AnalyticsContext.tsx  the usage counters        *)
(*   react-app/src/utils/performance.ts       useThrottle                  *)
(*   the Summarizer page                      submit, retry, save teams    *)
(*                                                                         *)
(* The specifications share the variables:                                 *)
(*   Spec          the server: concurrent /api/summarize requests, the     *)
(*                 cache endpoints and the clock                           *)
(*   SpecFair      Spec with the article fetch bounded by its timeout      *)
(*   SpecRetry     one GeminiService.summarizeArticle call                 *)
(*   SpecParse     validateAndFixEVSpread and the per-member parsing       *)
(*   SpecText      both response parsers on the same completion texts      *)
(*   SpecClean     the cleaning of the extracted article text              *)
(*   SpecPage      the Summarizer page over the hook and the client;       *)
(*                 SpecPageFair adds that pending promises settle          *)
(*   SpecHook      the hook as any caller may use it                       *)
(*   SpecThrottle  the function useThrottle returns                        *)
(*   SpecAnalytics the track functions of the analytics provider           *)
(*                                                                         *)
(* Text is modelled as a sequence of atoms: every digit, blank, sign and   *)
(* separator is an atom of its own; a run of letters the regular           *)
(* expressions of the code never look into is one atom ("Modest").         *)
(***************************************************************************)
EXTENDS Integers, Sequences, FiniteSets, TLC

VARIABLES
    \* ---- server.js ----
    clock,             \* Date.now()
    langchainGemini,   \* server.js:50, TRUE iff an API key was loaded
    translationCache,  \* server.js:39, the Map: cache key -> [data, timestamp]
    req,               \* the /api/summarize requests in flight, one record each
    lastSet,           \* history: per URL, the last setCachedTranslation not yet cleared
    admin,             \* the reply of the cache management endpoint called in the last step
    \* ---- geminiService.ts, one summarizeArticle call ----
    svc,               \* the call's locals and position
    \* ---- parser / validator ----
    evNums,            \* the numbers the segment's EV Spread line prints
    segment,           \* a member segment of the completion text
    evOut,             \* validateAndFixEVSpread's result for the segment's EV line
    member,            \* the team member parseGeminiResponse builds from it
    shape,             \* what a completion text is made of (title, members, fields)
    analysis,          \* server.js parseGeminiResponse of that text
    clientAnalysis,    \* geminiService.ts parseResponse of that text
    \* ---- server.js extractArticleText, the cleaning of the text ----
    allText,           \* the text put together from the page, and after each cleaning
    \* ---- the React application ----
    hook,              \* useGemini.ts: isLoading, result, error
    calls,             \* the geminiService.summarizeArticle calls the hook has made
    page,              \* Summarizer: url, the toasts shown, the pending continuations
    localStorage,      \* window.localStorage: 'analytics' and 'translatedTeams'
    provider,          \* AnalyticsContext.tsx: the analytics state and what was rendered
    throttle           \* performance.ts useThrottle: its refs, timer and invocations

vars == <<clock, langchainGemini, translationCache, req, lastSet, admin, svc,
         evNums, segment, evOut, member, shape, analysis, clientAnalysis,
         allText, hook, calls, page, localStorage, provider, throttle>>

serverVars == <<clock, translationCache, req, lastSet, admin>>
textVars   == <<shape, analysis, clientAnalysis>>
parseVars  == <<evNums, segment, evOut, member, textVars>>
appVars    == <<hook, calls, page, localStorage, provider>>
pageVars   == <<allText, appVars, throttle>>

-----------------------------------------------------------------------------
(* Bounds of the model *)

MaxRequests == 2      \* /api/summarize requests in one behaviour
MaxTicks    == 3      \* the clock runs to MaxTicks half-TTL ticks
MaxEVLen    == 2      \* numbers per enumerated EV spread string
MaxCalls    == 2      \* summarizeArticle calls in one behaviour
MaxMembers  == 7      \* member markers per completion text
MaxTextLen  == 5      \* characters per text that is cleaned
MaxHookCalls == 2     \* summarizeArticle calls of the hook in one behaviour
MaxElapsed == 4       \* units of time that pass after a throttled hook is created
MaxTracks == 3        \* track calls of the analytics provider in one behaviour

-----------------------------------------------------------------------------
(* Text helpers *)

Null == [isNull |-> TRUE]

Range(s) == {s[i] : i \in DOMAIN s}

Min(a, b) == IF a < b THEN a ELSE b

RECURSIVE Pow2(_)
Pow2(n) == IF n = 0 THEN 1 ELSE 2 * Pow2(n - 1)

DigitChars == <<"0", "1", "2", "3", "4", "5", "6", "7", "8", "9">>
Digits == Range(DigitChars)
DigitVal(c) == CHOOSE d \in 0..9 : DigitChars[d + 1] = c

Whitespace == {" ", "\n"}
\* Non-word atoms: \W of the regular expressions. Every other atom is a
\* digit or a run of letters, i.e. word characters only.
NonWord == Whitespace \cup {"-", "/", ":", "(", ")", "[", "]", "*", ".", ","}
IsWord(c) == c \notin NonWord

\* The decimal rendering of a natural number, one atom per digit.
RECURSIVE Render(_)
Render(n) == IF n < 10 THEN <<DigitChars[n + 1]>>
             ELSE Render(n \div 10) \o <<DigitChars[(n % 10) + 1]>>

\* An integer as the completion text would print it.
RenderInt(n) == IF n < 0 THEN <<"-">> \o Render(-n) ELSE Render(n)

RECURSIVE JoinWith(_, _)
JoinWith(parts, sep) ==
    IF Len(parts) = 0 THEN <<>>
    ELSE IF Len(parts) = 1 THEN parts[1]
    ELSE parts[1] \o sep \o JoinWith(Tail(parts), sep)

MinOf(S) == CHOOSE x \in S : \A y \in S : x <= y
MaxOf(S) == CHOOSE x \in S : \A y \in S : y <= x

\* The k-th smallest element of a set of numbers
Kth(S, k) == CHOOSE x \in S : Cardinality({y \in S : y < x}) = k - 1

\* String.prototype.trim
Trim(s) ==
    LET kept == {i \in DOMAIN s : s[i] \notin Whitespace}
    IN  IF kept = {} THEN <<>> ELSE SubSeq(s, MinOf(kept), MaxOf(kept))

-----------------------------------------------------------------------------
(* Regular-expression helpers, written for the patterns the code uses *)

\* First index >= i of s that holds no whitespace (Len(s) + 1 when none): \s*
SkipWs(s, i) == MinOf({j \in i..(Len(s) + 1) : j = Len(s) + 1 \/ s[j] \notin Whitespace})

\* Last index of the line that index a lies on: (.+?)(?:\n|$)
LineEnd(s, a) ==
    LET breaks == {j \in (a + 1)..Len(s) : s[j] = "\n"}
    IN  IF breaks = {} THEN Len(s) ELSE MinOf(breaks) - 1

\* First index >= i of s that holds no digit (Len(s) + 1 when none): \d+
SkipDigits(s, i) == MinOf({j \in i..(Len(s) + 1) : j = Len(s) + 1 \/ s[j] \notin Digits})

\* \b before index i / after index j, given that s[i], s[j] are word characters
BoundaryBefore(s, i) == i = 1 \/ ~IsWord(s[i - 1])
BoundaryAfter(s, j)  == j = Len(s) \/ ~IsWord(s[j + 1])

OccursAt(s, lit, p) ==
    /\ p >= 1
    /\ p + Len(lit) - 1 <= Len(s)
    /\ SubSeq(s, p, p + Len(lit) - 1) = lit

\* String.prototype.split(/\s+/): the pieces between maximal whitespace runs
\* (a leading or trailing run yields an empty piece, as in JavaScript).
SplitWs(s) ==
    LET starts == {i \in DOMAIN s : s[i] \notin Whitespace
                                    /\ (i = 1 \/ s[i - 1] \in Whitespace)}
        wordAt == [k \in 1..Cardinality(starts) |->
                      LET a == Kth(starts, k)
                          e == MinOf({j \in a..(Len(s) + 1) :
                                         j = Len(s) + 1 \/ s[j] \in Whitespace})
                      IN  SubSeq(s, a, e - 1)]
    IN  IF Len(s) = 0 THEN << <<>> >>
        ELSE (IF s[1] \in Whitespace THEN << <<>> >> ELSE <<>>)
             \o wordAt
             \o (IF s[Len(s)] \in Whitespace THEN << <<>> >> ELSE <<>>)

\* String.prototype.split(sep) for a one-atom separator
SplitOn(s, sep) ==
    LET at == {i \in DOMAIN s : s[i] = sep}
        n  == Cardinality(at)
    IN  [k \in 1..(n + 1) |->
            SubSeq(s, IF k = 1 THEN 1 ELSE Kth(at, k - 1) + 1,
                      IF k = n + 1 THEN Len(s) ELSE Kth(at, k) - 1)]

\* The value of a run of digits
RECURSIVE DigitsValue(_)
DigitsValue(ds) == IF Len(ds) = 0 THEN 0
                   ELSE 10 * DigitsValue(SubSeq(ds, 1, Len(ds) - 1)) + DigitVal(ds[Len(ds)])

NaN == [nan |-> TRUE, val |-> 0]

\* JavaScript's parseInt(string): leading whitespace, an optional sign, then
\* the longest run of digits; NaN when there is none.
parseInt(str) ==
    LET a    == SkipWs(str, 1)
        neg  == a <= Len(str) /\ str[a] = "-"
        b    == IF a <= Len(str) /\ str[a] \in {"-", "+"} THEN a + 1 ELSE a
        e    == SkipDigits(str, b)
    IN  IF e = b THEN NaN
        ELSE [nan |-> FALSE,
              val |-> IF neg THEN 0 - DigitsValue(SubSeq(str, b, e - 1))
                      ELSE DigitsValue(SubSeq(str, b, e - 1))]

\* parseInt(x) || 0
OrZero(n) == IF n.nan THEN 0 ELSE n.val

-----------------------------------------------------------------------------
(* server.js: validateAndFixEVSpread *)

NotSpecified          == <<"Not", " ", "specified">>
NotSpecifiedInArticle == <<"Not", " ", "specified", " ", "in", " ", "the", " ", "article">>

\* The three sentinels (their wording is one atom each: no pattern reads it)
EVsNotSpecified == <<"EVs not specified in the article">>
EVsFinalStats   == <<"EVs not specified in the article", " ", "(", "final stat values detected", ")">>
EVsInvalid      == <<"EVs not specified in the article", " ", "(", "invalid EV values detected", ")">>

\* Variant: statPattern with two digits for three: what the validator would do if 10..39 counted as stats
statPatternTwoDigits(evSpread) ==
    \E i \in 1..(Len(evSpread) - 1) :
        /\ evSpread[i] \in {"1", "2", "3"}
        /\ evSpread[i + 1] \in Digits
        /\ BoundaryBefore(evSpread, i)
        /\ BoundaryAfter(evSpread, i + 1)

\* /\b(1[0-9][0-9]|2[0-9][0-9]|3[0-9][0-9])\b/.test(evSpread)
statPattern(evSpread) ==
    \E i \in 1..(Len(evSpread) - 2) :
        /\ evSpread[i] \in {"1", "2", "3"}
        /\ evSpread[i + 1] \in Digits
        /\ evSpread[i + 2] \in Digits
        /\ BoundaryBefore(evSpread, i)
        /\ BoundaryAfter(evSpread, i + 2)

\* evSpread.match(/\b(\d+)\b/g): the runs of digits that stand between two
\* word boundaries, in text order (the empty sequence for null)
MatchNumbers(s) ==
    LET starts == {i \in DOMAIN s : /\ s[i] \in Digits
                                    /\ BoundaryBefore(s, i)
                                    /\ BoundaryAfter(s, SkipDigits(s, i) - 1)}
    IN  [k \in 1..Cardinality(starts) |->
            LET a == Kth(starts, k) IN SubSeq(s, a, SkipDigits(s, a) - 1)]

\* server.js:688, the loop's test
IsInvalidEV(num) == num < 0 \/ num > 252 \/ num % 4 # 0

\* Variant: the validator without its test for final stat values
validateAndFixEVSpreadNoStatRule(evSpread) ==
    IF Len(evSpread) = 0 \/ evSpread = NotSpecifiedInArticle THEN EVsNotSpecified
    ELSE LET evValues == MatchNumbers(evSpread)
         IN  IF \E k \in DOMAIN evValues : IsInvalidEV(OrZero(parseInt(evValues[k])))
             THEN EVsInvalid
             ELSE evSpread

\* server.js:672-695
validateAndFixEVSpread(evSpread) ==
    IF Len(evSpread) = 0 \/ evSpread = NotSpecifiedInArticle THEN EVsNotSpecified
    ELSE IF statPattern(evSpread) THEN EVsFinalStats
    ELSE LET evValues == MatchNumbers(evSpread)
         IN  IF \E k \in DOMAIN evValues : IsInvalidEV(OrZero(parseInt(evValues[k])))
             THEN EVsInvalid
             ELSE evSpread

-----------------------------------------------------------------------------
(* server.js: parseGeminiResponse, the body of its loop over the segments *)

NoMatch == [matched |-> FALSE, text |-> <<>>]

\* Where the capture of /Label:\s*(.+?)(?:\n|$)/ starts when the label ends
\* before index i: behind the whitespace \s* takes, or, when only whitespace
\* is left, at the last blank \s* can give back (0: no match here).
CaptureStart(s, i) ==
    LET q == SkipWs(s, i)
    IN  IF q <= Len(s) THEN q
        ELSE LET blanks == {a \in i..Len(s) : s[a] # "\n"}
             IN  IF blanks = {} THEN 0
                 ELSE CHOOSE a \in blanks : \A b \in blanks : b <= a

\* section.match(/Label:\s*(.+?)(?:\n|$)/): the first place the pattern
\* matches, scanning the occurrences of the label from the left
LineMatch(s, label) ==
    LET places == {p \in DOMAIN s : /\ OccursAt(s, label, p)
                                    /\ CaptureStart(s, p + Len(label)) # 0}
    IN  IF places = {} THEN NoMatch
        ELSE LET a == CaptureStart(s, MinOf(places) + Len(label))
             IN  [matched |-> TRUE, text |-> SubSeq(s, a, LineEnd(s, a))]

\* First index >= i where one of the literals starts (Len(s) + 1 when none)
FindAny(s, lits, i) ==
    MinOf({j \in i..(Len(s) + 1) : j = Len(s) + 1 \/ \E l \in lits : OccursAt(s, l, j)})

\* First index >= p where the literal starts (0 when none)
FindFirst(s, lit, p) ==
    LET places == {q \in p..Len(s) : OccursAt(s, lit, q)}
    IN  IF places = {} THEN 0 ELSE MinOf(places)

\* The word the model writes for "Pokémon" (ASCII only)
PokemonMark    == <<"*", "*", "Pokemon">>
ConclusionMark == <<"*", "*", "Conclusion">>

\* section.match(/EV Explanation:\s*([\s\S]*?)(?:\*\*Pokémon|\*\*Conclusion|$)/)
ExplanationMatch(s) ==
    LET label == <<"EV", " ", "Explanation", ":">>
        p     == FindFirst(s, label, 1)
    IN  IF p = 0 THEN NoMatch
        ELSE LET a == SkipWs(s, p + Len(label))
                 e == FindAny(s, {PokemonMark, ConclusionMark}, a)
             IN  [matched |-> TRUE, text |-> SubSeq(s, a, e - 1)]

\* lines[0].match(/\[([^\]]+)\]/): the first bracketed, non-empty name of the
\* segment's first line
NameMatch(line) ==
    LET closes(p) == {q \in (p + 2)..Len(line) : line[q] = "]"}
        opens     == {p \in DOMAIN line : /\ line[p] = "["
                                          /\ p < Len(line)
                                          /\ line[p + 1] # "]"
                                          /\ closes(p) # {}}
    IN  IF opens = {} THEN NoMatch
        ELSE LET p == MinOf(opens)
             IN  [matched |-> TRUE, text |-> SubSeq(line, p + 1, MinOf(closes(p)) - 1)]

OrDefault(m, default) == IF m.matched THEN Trim(m.text) ELSE default

\* movesMatch[1].split('/').map(move => ({name: move.trim(), ...}))
MovesOf(m) ==
    IF m.matched
    THEN LET pieces == SplitOn(m.text, "/")
         IN  [k \in DOMAIN pieces |-> [name |-> Trim(pieces[k])]]
    ELSE <<>>

EVSentinels == {EVsNotSpecified, EVsFinalStats, EVsInvalid}

\* server.js:758-776: the six EVs and the remaining EVs of a member
StatsOf(validatedEVSpread) ==
    LET evValues == SplitWs(validatedEVSpread)
    IN  IF validatedEVSpread \notin EVSentinels /\ Len(evValues) >= 6
        THEN LET evs == [k \in 1..6 |-> OrZero(parseInt(evValues[k]))]
             IN  [evs |-> evs,
                  remainingEvs |-> 508 - (evs[1] + evs[2] + evs[3] + evs[4] + evs[5] + evs[6])]
        ELSE [evs |-> <<0, 0, 0, 0, 0, 0>>, remainingEvs |-> 508]

\* server.js:709-778: the team member built from one segment. The fields
\* the code fills with literals (level, hp, status, types, ivs, bst) are left out.
ParseSegment(section) ==
    LET lines      == SplitOn(section, "\n")
        nameMatch  == NameMatch(lines[1])
        evMatch    == LineMatch(section, <<"EV", " ", "Spread", ":">>)
        rawEVSpread      == OrDefault(evMatch, NotSpecified)
        validatedEVSpread == validateAndFixEVSpread(rawEVSpread)
        stats      == StatsOf(validatedEVSpread)
    IN  [pokemon  |-> OrDefault(nameMatch, <<"Unknown Pokemon">>),
         teraType |-> OrDefault(LineMatch(section, <<"Tera", " ", "Type", ":">>), NotSpecified),
         item     |-> OrDefault(LineMatch(section, <<"Held", " ", "Item", ":">>), NotSpecified),
         ability  |-> OrDefault(LineMatch(section, <<"Ability", ":">>), NotSpecified),
         nature   |-> OrDefault(LineMatch(section, <<"Nature", ":">>), NotSpecified),
         moves    |-> MovesOf(LineMatch(section, <<"Moves", ":">>)),
         evs      |-> stats.evs,
         remainingEvs |-> stats.remainingEvs,
         strategy |-> OrDefault(ExplanationMatch(section), NotSpecified),
         evSpread |-> validatedEVSpread]

-----------------------------------------------------------------------------
(* server.js: parseGeminiResponse *)

\* s.includes(lit)
Includes(s, lit) == FindFirst(s, lit, 1) # 0

\* Index behind the marker /\*\*Pokémon \d+:/ that starts at p (0: none starts there)
MarkerEnd(s, p) ==
    IF OccursAt(s, PokemonMark \o <<" ">>, p)
    THEN LET d == p + Len(PokemonMark) + 1
             e == SkipDigits(s, d)
         IN  IF e > d /\ e <= Len(s) /\ s[e] = ":" THEN e + 1 ELSE 0
    ELSE 0

\* text.split(/\*\*Pokémon \d+:/)
SplitMarkers(s) ==
    LET at == {p \in DOMAIN s : MarkerEnd(s, p) # 0}
        n  == Cardinality(at)
    IN  [k \in 1..(n + 1) |->
            SubSeq(s, IF k = 1 THEN 1 ELSE MarkerEnd(s, Kth(at, k - 1)),
                      IF k = n + 1 THEN Len(s) ELSE Kth(at, k) - 1)]

MsPerDay == 24 * 60 * 60 * 1000

\* server.js:698-830. now is Date.now() at the call. The fields filled with
\* literal (processingTime) and overallStrategy, which no other code reads,
\* are left out.

\* Variant: the loop without its bound of six
KeptSectionsAll(pokemonSections) == Len(pokemonSections) - 1

\* server.js:708: for (let i = 1; i < pokemonSections.length && i <= 6; i++):
\* the number of segments the loop turns into team members
KeptSections(pokemonSections) == Min(Len(pokemonSections) - 1, 6)

\* server.js:698-835
parseGeminiResponse(text, now) ==
    LET titleMatch      == LineMatch(text, <<"TITLE", ":">>)
        pokemonSections == SplitMarkers(text)
        n               == KeptSections(pokemonSections)
        teams           == [i \in 1..n |-> ParseSegment(pokemonSections[i + 1])]
        hasInvalidEVs   == \E i \in 1..n :
                               Includes(teams[i].evSpread, <<"final stat values detected">>)
    IN  [originalText     |-> text,
         summary          |-> text,
         articleTitle     |-> OrDefault(titleMatch, NotSpecified),
         teams            |-> teams,
         mentionedPokemon |-> [i \in 1..n |-> teams[i].pokemon],
         translationConfidence |-> 95,
         translatedDate   |-> now \div MsPerDay,
         evWarning        |-> hasInvalidEVs]

-----------------------------------------------------------------------------
(* server.js: the result cache *)

CACHE_DURATION == 24 * 60 * 60 * 1000

\* The clock advances in steps of half the cache duration, so that an entry
\* is seen at the ages 0, TTL/2, TTL (the boundary) and beyond.
TickMs == CACHE_DURATION \div 2

\* crypto.createHash('md5').update(url).digest('hex'): a digest of the URL,
\* distinct for the distinct URLs of the model
generateCacheKey(url) == <<"md5", url>>

HasKey(cache, key) == key \in DOMAIN cache

\* Map.prototype.set / delete
MapSet(cache, key, value) ==
    [k \in DOMAIN cache \cup {key} |-> IF k = key THEN value ELSE cache[k]]
MapDelete(cache, key) == [k \in DOMAIN cache \ {key} |-> cache[k]]

\* Variant: IsFresh with <= for <: an entry of age exactly CACHE_DURATION would still be served
IsFreshInclusive(cached, now) == (now - cached.timestamp) <= CACHE_DURATION

\* server.js:492, the test of a cache hit
IsFresh(cached, now) == (now - cached.timestamp) < CACHE_DURATION

\* Variant: a lookup that deletes the entry it finds, fresh or stale
CacheAfterGetDropFound(cache, url, now) ==
    LET cacheKey == generateCacheKey(url)
    IN  IF HasKey(cache, cacheKey) THEN MapDelete(cache, cacheKey) ELSE cache

\* Variant: getCachedTranslation reading the key of another string than the URL
getCachedTranslationWrongKey(cache, url, now) ==
    LET cacheKey == <<"md5", "undefined">>
    IN  IF HasKey(cache, cacheKey) /\ IsFresh(cache[cacheKey], now)
        THEN cache[cacheKey].data
        ELSE Null

\* getCachedTranslation(url): what it returns, and the Map it leaves
getCachedTranslation(cache, url, now) ==
    LET cacheKey == generateCacheKey(url)
    IN  IF HasKey(cache, cacheKey) /\ IsFresh(cache[cacheKey], now)
        THEN cache[cacheKey].data
        ELSE Null

CacheAfterGet(cache, url, now) ==
    LET cacheKey == generateCacheKey(url)
    IN  IF HasKey(cache, cacheKey) /\ ~IsFresh(cache[cacheKey], now)
        THEN MapDelete(cache, cacheKey)
        ELSE cache

\* Variant: setCachedTranslation replacing the Map instead of one entry
setCachedTranslationDropOthers(cache, url, data, now) ==
    [k \in {generateCacheKey(url)} |-> [data |-> data, timestamp |-> now]]

\* Variant: setCachedTranslation stamping the entry with 0 instead of Date.now()
setCachedTranslationStaleStamp(cache, url, data, now) ==
    MapSet(cache, generateCacheKey(url), [data |-> data, timestamp |-> 0])

\* setCachedTranslation(url, data): the Map it leaves
setCachedTranslation(cache, url, data, now) ==
    MapSet(cache, generateCacheKey(url), [data |-> data, timestamp |-> now])

-----------------------------------------------------------------------------
(* Completion texts the model feeds to the parser, in the format the
   prompt asks for (server.js:322-328) *)

\* "n1 n2 ... nk": the EV Spread line's value
EVText(nums) == JoinWith([k \in DOMAIN nums |-> RenderInt(nums[k])], <<" ">>)

\* The text behind a "**Pokemon N:" marker. An empty nums or nature leaves
\* the line out.
SegmentText(name, nums, nature) ==
    <<" ", "[", name, "]", "*", "*", "\n">>
    \o <<"-", " ", "Ability", ":", " ", "Good", " ", "as", " ", "Gold", "\n">>
    \o <<"-", " ", "Held", " ", "Item", ":", " ", "Choice", " ", "Specs", "\n">>
    \o <<"-", " ", "Tera", " ", "Type", ":", " ", "Steel", "\n">>
    \o <<"-", " ", "Moves", ":", " ", "Make", " ", "It", " ", "Rain", " ", "/", " ",
         "Protect", "\n">>
    \o (IF nums = <<>> THEN <<>>
        ELSE <<"-", " ", "EV", " ", "Spread", ":", " ">> \o EVText(nums) \o <<"\n">>)
    \o (IF nature = <<>> THEN <<>>
        ELSE <<"-", " ", "Nature", ":", " ">> \o nature \o <<"\n">>)
    \o <<"-", " ", "EV", " ", "Explanation", ":", " ", "Outspeeds", " ", "Urshifu", "\n">>

\* The numbers an enumerated EV spread is made of
EVTokens == {-4, 0, 4, 6, 32, 100, 252, 400}

\* Spreads of six numbers: those of the documented scenarios, a valid one,
\* one with a signed number, one that breaks two rules at once and one of
\* valid numbers whose sum is above 508
ScenarioSpreads == {<<252, 0, 4, 252, 0, 0>>, <<175, 207, 111, 202, 156, 97>>,
                    <<4, 0, 0, 0, 0, 0>>, <<32, 32, 32, 32, 32, 32>>,
                    <<-4, 0, 0, 0, 0, 0>>, <<6, 0, 0, 0, 0, 300>>,
                    <<96, 96, 96, 96, 96, 96>>}

EVInputs == ScenarioSpreads \cup UNION {[1..k -> EVTokens] : k \in 1..MaxEVLen}

Natures == {<<>>, <<"Modest">>, <<"Adamant">>}

-----------------------------------------------------------------------------
(* Server state before the first request, shared by every specification *)

URLs == {"https://a.example/team", "https://b.example/team"}

\* A request: its position in the handler, its locals url and cachedResult,
\* the response sent (status, body), and how often it has called
\* extractArticleText (fetches) and langchainGemini.invoke (calls), and
\* whether a step of it has changed the Map (touched).
NoRequest == [pc |-> "idle", url |-> "", cachedResult |-> Null, status |-> 0,
              body |-> Null, fetches |-> 0, calls |-> 0, touched |-> FALSE]

ServerIdle ==
    /\ clock = 0
    /\ translationCache = <<>>
    /\ req = [r \in 1..MaxRequests |-> NoRequest]
    /\ lastSet = [u \in URLs |-> Null]
    /\ admin = Null

SvcIdle == svc = Null

TextIdle ==
    /\ shape = Null
    /\ analysis = Null
    /\ clientAnalysis = Null

\* The React application before it is mounted
AppIdle ==
    /\ hook = Null
    /\ calls = <<>>
    /\ page = Null
    /\ localStorage = Null
    /\ provider = Null

PageIdle ==
    /\ allText = Null
    /\ AppIdle
    /\ throttle = Null

ParseIdle ==
    /\ evNums = <<>>
    /\ segment = <<>>
    /\ evOut = Null
    /\ member = Null
    /\ TextIdle
    /\ PageIdle

-----------------------------------------------------------------------------
(* SpecParse: the validator and the member parser on enumerated segments *)

InitParse ==
    /\ ServerIdle
    /\ langchainGemini = TRUE
    /\ SvcIdle
    /\ evNums \in EVInputs \cup {<<>>}
    /\ \E nature \in Natures : segment = SegmentText("Gholdengo", evNums, nature)
    /\ evOut = Null
    /\ member = Null
    /\ TextIdle
    /\ PageIdle

\* validateAndFixEVSpread applied to the value of the EV Spread line
Validate ==
    /\ evNums # <<>>
    /\ evOut = Null
    /\ evOut' = [result |-> validateAndFixEVSpread(EVText(evNums))]
    /\ UNCHANGED <<evNums, segment, member, textVars, serverVars, langchainGemini, svc,
                   pageVars>>

\* One pass of parseGeminiResponse's loop over the segment
ParseMember ==
    /\ member = Null
    /\ member' = ParseSegment(segment)
    /\ UNCHANGED <<evNums, segment, evOut, textVars, serverVars, langchainGemini, svc,
                   pageVars>>

NextParse == Validate \/ ParseMember

SpecParse == InitParse /\ [][NextParse]_vars

-----------------------------------------------------------------------------
(* Spec: the server. Each await of the /api/summarize handler ends one
   atomic step of the single-threaded event loop. *)

TitleLine == <<"TITLE", ":", " ", "Test", " ", "Article", "\n">>
Marker(n) == PokemonMark \o <<" ">> \o Render(n) \o <<":">>

\* A text of two members: the first with the given EV spread and no Nature
\* line, the second with a spread the validator accepts
TeamText(nums) ==
    Marker(1) \o SegmentText("Urshifu", nums, <<>>)
    \o Marker(2) \o SegmentText("Rillaboom", <<4, 0, 0, 0, 0, 0>>, <<"Jolly">>)

\* What langchainGemini.invoke may answer with
CompletionTexts ==
    { TitleLine \o Marker(1) \o SegmentText("Gholdengo", <<4, 0, 0, 0, 0, 0>>, <<"Modest">>),
      TeamText(<<175, 207, 111, 202, 156, 97>>),
      <<"No", " ", "team", " ", "was", " ", "found", ".">> }

\* What axios.get(url) of extractArticleText may end with: the cleaned text
\* of the page (possibly empty) or an AxiosError with its message
FetchOutcomes ==
    { [ok |-> TRUE,  text |-> <<"article">>, message |-> <<>>],
      [ok |-> TRUE,  text |-> <<>>,          message |-> <<>>],
      [ok |-> FALSE, text |-> <<>>,
       message |-> <<"Request failed with status code", " ", "500">>],
      [ok |-> FALSE, text |-> <<>>,
       message |-> <<"timeout", " ", "of", " ", "15000ms", " ", "exceeded">>] }

\* What langchainGemini.invoke may end with: a response whose content is a
\* string, a response whose content is not one, or an error with its message
InvokeOutcomes ==
    { [ok |-> TRUE, isString |-> TRUE, text |-> t, message |-> <<>>] : t \in CompletionTexts }
    \cup
    { [ok |-> TRUE, isString |-> FALSE, text |-> <<>>, message |-> <<>>],
      [ok |-> FALSE, isString |-> FALSE, text |-> <<>>,
       message |-> <<"[", "429", " ", "Too Many Requests", "]">>],
      [ok |-> FALSE, isString |-> FALSE, text |-> <<>>,
       message |-> <<"[", "503", " ", "Service Unavailable", "]">>] }

\* parseGeminiResponse of each completion text, evaluated once: of its
\* result only translatedDate depends on the time of the call
ParsedAtZero == [t \in CompletionTexts |-> parseGeminiResponse(t, 0)]
ParsedAt(text, now) == [ParsedAtZero[text] EXCEPT !.translatedDate = now \div MsPerDay]

Reply(r, code, payload) ==
    [req[r] EXCEPT !.pc = "done", !.status = code, !.body = payload]

\* server.js:936-939, the handler's outer catch
OuterCatch(r, message) ==
    Reply(r, 500, [error |-> <<"Failed to process article: ">> \o message])

\* server.js:838-871: the handler up to its first await
Receive(r, url) ==
    /\ req[r].pc = "idle"
    /\ IF r = 1 THEN TRUE ELSE req[r - 1].pc # "idle"
    /\ IF url = ""
       THEN /\ req' = [req EXCEPT ![r] = Reply(r, 400, [error |-> <<"URL is required">>])]
            /\ UNCHANGED translationCache
       ELSE LET cachedResult == getCachedTranslation(translationCache, url, clock)
                started      == [req[r] EXCEPT !.url = url, !.cachedResult = cachedResult,
                                    !.touched = CacheAfterGet(translationCache, url, clock)
                                                # translationCache]
            IN  /\ translationCache' = CacheAfterGet(translationCache, url, clock)
                /\ req' = [req EXCEPT ![r] =
                      IF cachedResult # Null
                      THEN [started EXCEPT !.pc = "done", !.status = 200, !.body = cachedResult]
                      ELSE IF ~langchainGemini
                      THEN [started EXCEPT !.pc = "done", !.status = 400,
                                           !.body = [error |-> <<"Gemini API key not configured">>]]
                      ELSE [started EXCEPT !.pc = "fetching", !.fetches = @ + 1]]
    /\ admin' = Null
    /\ UNCHANGED <<clock, langchainGemini, lastSet, svc, parseVars, pageVars>>

\* server.js:868-906: Promise.all settles; on success the prompt is built
\* and langchainGemini.invoke is called
FetchDone(r, out) ==
    /\ req[r].pc = "fetching"
    /\ req' = [req EXCEPT ![r] =
          IF ~out.ok
          THEN OuterCatch(r, <<"Failed to fetch article: ">> \o out.message)
          ELSE IF out.text = <<>>
          THEN Reply(r, 400, [error |-> <<"Could not extract text from URL">>])
          ELSE [req[r] EXCEPT !.pc = "invoking", !.calls = @ + 1]]
    /\ admin' = Null
    /\ UNCHANGED <<clock, langchainGemini, translationCache, lastSet, svc, parseVars, pageVars>>

\* server.js:906-934: invoke settles; the response is parsed, cached and sent
InvokeDone(r, out) ==
    /\ req[r].pc = "invoking"
    /\ IF out.ok /\ out.isString
       THEN LET parsedResponse == ParsedAt(out.text, clock)
            IN  /\ translationCache' =
                      setCachedTranslation(translationCache, req[r].url, parsedResponse, clock)
                /\ lastSet' = [lastSet EXCEPT ![req[r].url] =
                                  [data |-> parsedResponse, at |-> clock]]
                /\ req' = [req EXCEPT ![r] =
                      [Reply(r, 200, parsedResponse) EXCEPT !.touched = TRUE]]
       ELSE LET message == IF out.ok THEN <<"text.substring is not a function">>
                           ELSE out.message
            IN  /\ req' = [req EXCEPT ![r] =
                      IF Includes(message, <<"429">>) \/ Includes(message, <<"quota">>)
                      THEN Reply(r, 429, [error |-> <<"API rate limit exceeded">>])
                      ELSE OuterCatch(r, <<"Gemini API Error: ">> \o message)]
                /\ UNCHANGED <<translationCache, lastSet>>
    /\ admin' = Null
    /\ UNCHANGED <<clock, langchainGemini, svc, parseVars, pageVars>>

\* Variant: the clear endpoint answering without clearing the Map
CacheClearKeepsEntries ==
    /\ admin' = [endpoint |-> "clear",
                 message  |-> <<"Cache cleared. Removed ">>
                              \o Render(Cardinality(DOMAIN translationCache))
                              \o <<" entries.">>]
    /\ UNCHANGED <<clock, langchainGemini, translationCache, lastSet, req, svc, parseVars, pageVars>>

\* server.js:956-961: DELETE /api/cache/clear
CacheClear ==
    LET clearedCount == Cardinality(DOMAIN translationCache)
    IN  /\ translationCache' = <<>>
        /\ lastSet' = [u \in URLs |-> Null]
        /\ admin' = [endpoint |-> "clear",
                     message  |-> <<"Cache cleared. Removed ">> \o Render(clearedCount)
                                  \o <<" entries.">>]
        /\ UNCHANGED <<clock, langchainGemini, req, svc, parseVars, pageVars>>

\* server.js:943-954: GET /api/cache/status. The entries are reported as a
\* set: the order of the array (the Map's insertion order) is left out.
CacheStatus ==
    /\ admin' = [endpoint |-> "status",
                 size     |-> Cardinality(DOMAIN translationCache),
                 entries  |-> { [key       |-> key,
                                 timestamp |-> translationCache[key].timestamp,
                                 age       |-> clock - translationCache[key].timestamp,
                                 expiresIn |-> CACHE_DURATION
                                               - (clock - translationCache[key].timestamp)]
                                : key \in DOMAIN translationCache }]
    /\ UNCHANGED <<clock, langchainGemini, translationCache, req, lastSet, svc, parseVars, pageVars>>

\* Time passes
Tick ==
    /\ clock < MaxTicks * TickMs
    /\ clock' = clock + TickMs
    /\ admin' = Null
    /\ UNCHANGED <<langchainGemini, translationCache, req, lastSet, svc, parseVars, pageVars>>

Init ==
    /\ ServerIdle
    /\ langchainGemini \in BOOLEAN
    /\ SvcIdle
    /\ ParseIdle

Next ==
    \/ \E r \in 1..MaxRequests, url \in URLs \cup {""} : Receive(r, url)
    \/ \E r \in 1..MaxRequests, out \in FetchOutcomes : FetchDone(r, out)
    \/ \E r \in 1..MaxRequests, out \in InvokeOutcomes : InvokeDone(r, out)
    \/ CacheClear
    \/ CacheStatus
    \/ Tick

Spec == Init /\ [][Next]_vars

-----------------------------------------------------------------------------
(* Claims about the server (Spec) *)

\* In this step request r has run getCachedTranslation(req'[r].url)
LookedUp(r) == req[r].pc = "idle" /\ req'[r].pc # "idle" /\ req'[r].url # ""

\* In this step request r has run setCachedTranslation(req[r].url, req'[r].body)
Wrote(r) == req[r].pc = "invoking" /\ req'[r].status = 200

KeyOf(url) == <<"md5", url>>

\* C1: a lookup returns the stored result iff an entry exists under the
\* URL's key and now - timestamp < 24h (strict); a lookup that finds
\* now - timestamp >= 24h deletes the entry and returns nothing; and an
\* entry leaves the cache only by such a lookup of its own key (or by the
\* clearing of the whole cache), never because time passes.
C1_LookupHonoursTTL ==
    [][ /\ \A r \in 1..MaxRequests :
             LookedUp(r) =>
               LET k     == KeyOf(req'[r].url)
                   found == k \in DOMAIN translationCache
                   age   == clock - translationCache[k].timestamp
               IN  /\ req'[r].cachedResult =
                         (IF found /\ age < 86400000 THEN translationCache[k].data ELSE Null)
                   /\ (found /\ age >= 86400000) => k \notin DOMAIN translationCache'
                   /\ (found /\ age < 86400000) =>
                         /\ k \in DOMAIN translationCache'
                         /\ translationCache'[k] = translationCache[k]
        /\ \A k \in DOMAIN translationCache :
             k \notin DOMAIN translationCache' =>
               \/ translationCache' = <<>> /\ req' = req
               \/ \E r \in 1..MaxRequests :
                     /\ LookedUp(r)
                     /\ k = KeyOf(req'[r].url)
                     /\ clock - translationCache[k].timestamp >= 86400000
      ]_vars

\* C1's case: a request has looked its URL up, found the entry stale and
\* deleted it (the URL was set, never cleared since, and its entry is gone)
C1_Witness ==
    \E r \in 1..MaxRequests :
        /\ req[r].pc = "fetching"
        /\ lastSet[req[r].url] # Null
        /\ clock - lastSet[req[r].url].at >= 86400000
        /\ KeyOf(req[r].url) \notin DOMAIN translationCache

\* C2: after set(u, v), with no later set of u and no clear, get(u) returns
\* v at every time before 24h have passed since the set and nothing from
\* then on.
C2_RoundTrip ==
    [][ \A r \in 1..MaxRequests :
          (LookedUp(r) /\ lastSet[req'[r].url] # Null) =>
             req'[r].cachedResult =
                (IF clock - lastSet[req'[r].url].at < 86400000
                 THEN lastSet[req'[r].url].data
                 ELSE Null)
      ]_vars

\* C2's case: a lookup has returned the value set earlier
C2_Witness ==
    \E r \in 1..MaxRequests :
        /\ req[r].cachedResult # Null
        /\ lastSet[req[r].url] # Null
        /\ req[r].cachedResult = lastSet[req[r].url].data
        /\ clock > lastSet[req[r].url].at

C4_WritesDoNotInterfere ==
    [][ /\ \A r1, r2 \in 1..MaxRequests :
             (r1 # r2 /\ req'[r1] # req[r1]) => req'[r2] = req[r2]
        /\ \A r \in 1..MaxRequests :
             Wrote(r) =>
               /\ \A k \in DOMAIN translationCache :
                     k # KeyOf(req[r].url) =>
                        /\ k \in DOMAIN translationCache'
                        /\ translationCache'[k] = translationCache[k]
               /\ KeyOf(req[r].url) \in DOMAIN translationCache'
               /\ translationCache'[KeyOf(req[r].url)] =
                     [data |-> req'[r].body, timestamp |-> clock]
        /\ \A u \in URLs :
             KeyOf(u) \in DOMAIN translationCache' =>
               /\ lastSet'[u] # Null
               /\ translationCache'[KeyOf(u)] =
                     [data |-> lastSet'[u].data, timestamp |-> lastSet'[u].at]
      ]_vars

\* C4's case: two analyses of one URL overlap (the second missed the cache
\* at time 0 and is still calling the completion service) and the first
\* has written its result, next to an entry of the other URL's key
C4_Witness ==
    \E r1, r2 \in 1..MaxRequests :
        /\ r1 # r2
        /\ req[r1].url = req[r2].url
        /\ req[r1].status = 200 /\ req[r1].cachedResult = Null
        /\ req[r2].pc = "invoking"
        /\ clock = 0
        /\ lastSet[req[r1].url] # Null
        /\ translationCache[KeyOf(req[r1].url)].data = req[r1].body

\* C7 as stated: when the fetch of the URL fails with HTTP 500 the request
\* ends with a fetch error that names the URL, and it has made no
\* completion call.
C7_FetchErrorNamesUrl ==
    \A r \in 1..MaxRequests :
        ( /\ req[r].status = 500
          /\ Includes(req[r].body.error, <<"Failed to fetch article: ">>)
          /\ Includes(req[r].body.error, <<"500">>) )
        => /\ Includes(req[r].body.error, <<req[r].url>>)
           /\ req[r].calls = 0

-----------------------------------------------------------------------------
(* geminiService.ts: parseResponse and the parsers it calls *)

\* Index behind the marker /Pokémon \d+:/ that starts at p (0: none starts there)
ClientMarkerEnd(s, p) ==
    IF OccursAt(s, <<"Pokemon", " ">>, p)
    THEN LET e == SkipDigits(s, p + 2)
         IN  IF e > p + 2 /\ e <= Len(s) /\ s[e] = ":" THEN e + 1 ELSE 0
    ELSE 0

\* summary.split(/Pokémon \d+:/)
ClientSplitMarkers(s) ==
    LET at == {p \in DOMAIN s : ClientMarkerEnd(s, p) # 0}
        n  == Cardinality(at)
    IN  [k \in 1..(n + 1) |->
            SubSeq(s, IF k = 1 THEN 1 ELSE ClientMarkerEnd(s, Kth(at, k - 1)),
                      IF k = n + 1 THEN Len(s) ELSE Kth(at, k) - 1)]

\* summary.match(/Pokémon \d+:\s*([^\n]+)/g), scanning from index i: the
\* captures of the successive matches, each match ending with its line
RECURSIVE NameCaptures(_, _)
NameCaptures(s, i) ==
    LET places == {p \in i..Len(s) : /\ ClientMarkerEnd(s, p) # 0
                                     /\ CaptureStart(s, ClientMarkerEnd(s, p)) # 0}
    IN  IF places = {} THEN <<>>
        ELSE LET a == CaptureStart(s, ClientMarkerEnd(s, MinOf(places)))
                 e == LineEnd(s, a)
             IN  <<SubSeq(s, a, e)>> \o NameCaptures(s, e + 1)

\* array.filter(x => x.length > 0)
NonEmpty(seq) ==
    LET kept == {k \in DOMAIN seq : Len(seq[k]) > 0}
    IN  [j \in 1..Cardinality(kept) |-> seq[Kth(kept, j)]]

\* geminiService.ts:586-598
extractPokemonNames(summary) ==
    LET captures == NameCaptures(summary, 1)
        names    == NonEmpty([k \in DOMAIN captures |-> Trim(captures[k])])
    IN  SubSeq(names, 1, Min(Len(names), 6))

\* Start of the next run of digits behind the run that ends before index e,
\* when whitespace separates the two (0 otherwise): \s+ and the next (\d+)
NextRun(s, e) ==
    LET w == SkipWs(s, e)
    IN  IF e # 0 /\ w > e /\ w <= Len(s) /\ s[w] \in Digits THEN w ELSE 0

RunEnd(s, a) == IF a = 0 THEN 0 ELSE SkipDigits(s, a)

\* The starts of the six runs of /(\d+)\s+(\d+)\s+(\d+)\s+(\d+)\s+(\d+)\s+(\d+)/
\* matched from index i (a start of 0: no match from i)
SixRuns(s, i) ==
    LET a1 == IF s[i] \in Digits THEN i ELSE 0
        a2 == NextRun(s, RunEnd(s, a1))
        a3 == NextRun(s, RunEnd(s, a2))
        a4 == NextRun(s, RunEnd(s, a3))
        a5 == NextRun(s, RunEnd(s, a4))
        a6 == NextRun(s, RunEnd(s, a5))
    IN  <<a1, a2, a3, a4, a5, a6>>

\* geminiService.ts:666-680 (Null for undefined)
parseEVSpread(evSpread) ==
    LET places == {i \in DOMAIN evSpread : SixRuns(evSpread, i)[6] # 0}
    IN  IF evSpread = NotSpecified \/ places = {} THEN Null
        ELSE LET a    == SixRuns(evSpread, MinOf(places))
                 n(k) == OrZero(parseInt(SubSeq(evSpread, a[k], RunEnd(evSpread, a[k]) - 1)))
             IN  [hp |-> n(1), attack |-> n(2), defense |-> n(3),
                  spAtk |-> n(4), spDef |-> n(5), speed |-> n(6)]

\* section.match(/- EV Explanation:\s*([\s\S]*?)(?=\n\n|\*\*Pokémon|\n- |$)/)
ClientExplanationMatch(s) ==
    LET label == <<"-", " ", "EV", " ", "Explanation", ":">>
        p     == FindFirst(s, label, 1)
    IN  IF p = 0 THEN NoMatch
        ELSE LET a == SkipWs(s, p + Len(label))
                 e == FindAny(s, {<<"\n", "\n">>, PokemonMark, <<"\n", "-", " ">>}, a)
             IN  [matched |-> TRUE, text |-> SubSeq(s, a, e - 1)]

\* geminiService.ts:615-661: the team member built from segment i
ClientMember(section, i) ==
    LET lines    == SplitOn(section, "\n")
        name     == Trim(lines[1])
        movesMatch == LineMatch(section, <<"-", " ", "Moves", ":">>)
        evSpread == OrDefault(LineMatch(section, <<"-", " ", "EV", " ", "Spread", ":">>),
                              NotSpecified)
    IN  [name     |-> IF Len(name) = 0 THEN <<"Pokemon", " ">> \o Render(i) ELSE name,
         ability  |-> OrDefault(LineMatch(section, <<"-", " ", "Ability", ":">>), NotSpecified),
         item     |-> OrDefault(LineMatch(section, <<"-", " ", "Held", " ", "Item", ":">>),
                                NotSpecified),
         teraType |-> OrDefault(LineMatch(section, <<"-", " ", "Tera", " ", "Type", ":">>),
                                NotSpecified),
         moves    |-> IF movesMatch.matched
                      THEN LET pieces == SplitOn(movesMatch.text, "/")
                           IN  NonEmpty([k \in DOMAIN pieces |-> Trim(pieces[k])])
                      ELSE <<>>,
         nature   |-> OrDefault(LineMatch(section, <<"-", " ", "Nature", ":">>), NotSpecified),
         evs      |-> parseEVSpread(evSpread),
         evExplanation |-> OrDefault(ClientExplanationMatch(section), NotSpecified)]

\* geminiService.ts:610-664
parseDetailedTeamMembers(summary) ==
    LET pokemonSections == ClientSplitMarkers(summary)
        n               == Min(Len(pokemonSections) - 1, 6)
    IN  [i \in 1..n |-> ClientMember(pokemonSections[i + 1], i)]

\* new URL(sourceUrl).hostname for the URLs of the model
Hostname(url) ==
    IF url = "https://a.example/team" THEN "a.example" ELSE "b.example"

\* summaryText.match(/TITLE:\s*(.+)/i): the rest of the first line that
\* follows a title label
TitleMatch(s) ==
    LET places == {p \in DOMAIN s : /\ \E w \in {"TITLE", "Title", "title"} :
                                          OccursAt(s, <<w, ":">>, p)
                                    /\ CaptureStart(s, p + 2) # 0}
    IN  IF places = {} THEN NoMatch
        ELSE LET a == CaptureStart(s, MinOf(places) + 2)
             IN  [matched |-> TRUE, text |-> SubSeq(s, a, LineEnd(s, a))]

\* geminiService.ts:563-584
parseResponse(summaryText, sourceUrl) ==
    [title       |-> OrDefault(TitleMatch(summaryText),
                               <<"Article from ", Hostname(sourceUrl)>>),
     summary     |-> summaryText,
     team        |-> parseDetailedTeamMembers(summaryText),
     pokemonNames |-> extractPokemonNames(summaryText)]

-----------------------------------------------------------------------------
(* geminiService.ts: summarizeArticle, its retry loop and the article fetch *)

maxRetries == 3

\* What the completion may say, in the format the client's patterns read
ClientTexts ==
    { TitleLine \o Marker(1) \o SegmentText("Gholdengo", <<252, 0, 4, 252, 0, 0>>, <<"Modest">>),
      Marker(1) \o SegmentText("Urshifu", <<4, 0, 0, 0, 0, 0>>, <<>>)
         \o Marker(2) \o SegmentText("Gholdengo", <<>>, <<"Adamant">>) }

\* What one proxy request of fetchArticleContent may end with: a page with
\* text in its paragraphs, a page without paragraphs and headings, an empty
\* body, a status that is not ok, the abort after 15 s, a rejected fetch
ProxyResults == {"html", "bare", "empty", "500", "timeout", "failed"}

\* What the request to the Streamlit backend may end with
StreamlitResults == {"html", "bare", "empty", "failed"}

\* geminiService.ts:370, 388 and the browser's TypeError: the message of a
\* failed proxy request
ProxyErrorMessage(result) ==
    CASE result = "500"     -> <<"Proxy failed with status: ", "500">>
      [] result = "timeout" -> <<"Request ", "timeout">>
      [] OTHER              -> <<"Failed to fetch">>

\* What a strategy is seen to answer: an error (a status, a timeout, a
\* failed request), an empty body, or a page
Answer(result) ==
    CASE result \in {"html", "bare"} -> "page"
      [] result = "empty"            -> "empty"
      [] OTHER                       -> "error"

\* The fallback's place in the order of the strategies, after the proxies
Streamlit == 5

\* geminiService.ts:336-510. proxyResults: what each of the four proxies
\* would answer, in the order of the list; streamlitResult: what the
\* fallback would. The loop stops at the first response that is ok, whatever
\* its body; an empty htmlContent afterwards goes to the fallback. The text
\* extracted from a page is one atom; a page without paragraphs and
\* headings yields the empty articleText. tried is history: the strategies
\* the call has sent a request to, in order, each with what it answered.
fetchArticleContent(proxyResults, streamlitResult) ==
    LET answered == {k \in DOMAIN proxyResults : proxyResults[k] \in {"html", "bare", "empty"}}
        stop     == IF answered = {} THEN Len(proxyResults) + 1 ELSE MinOf(answered)
        failed   == {k \in DOMAIN proxyResults : k < stop}
        proxied  == IF stop <= Len(proxyResults) /\ proxyResults[stop] # "empty"
                    THEN proxyResults[stop] ELSE ""
        htmlContent == IF proxied # "" THEN proxied
                       ELSE IF streamlitResult = "empty" THEN "" ELSE streamlitResult
        errorMessage == IF failed = {} THEN <<"Unknown error">>
                        ELSE ProxyErrorMessage(proxyResults[MaxOf(failed)])
        kind     == IF failed = {} THEN "unknown" ELSE proxyResults[MaxOf(failed)]
        tried    == [k \in 1..Min(stop, Len(proxyResults)) |->
                        [strategy |-> k, answer |-> Answer(proxyResults[k])]]
                    \o (IF proxied = ""
                        THEN <<[strategy |-> Streamlit, answer |-> Answer(streamlitResult)]>>
                        ELSE <<>>)
    IN  IF htmlContent = "failed"
        THEN [ok |-> FALSE, articleText |-> <<>>, kind |-> "fetch " \o kind,
              message |-> <<"Failed to fetch article content: ",
                            "All methods failed. Please try: ... Last CORS error: ">>
                          \o errorMessage,
              tried |-> tried]
        ELSE [ok |-> TRUE, kind |-> "ok", message |-> <<>>,
              articleText |-> IF htmlContent = "html"
                              THEN <<"CONTENT:\n", "article">> ELSE <<>>,
              tried |-> tried]

\* What model.generateContent and response.text() may end with: the text, or
\* an error of the SDK with its message
GenerateOutcomes ==
    { [ok |-> TRUE, kind |-> "ok", text |-> t, message |-> <<>>] : t \in ClientTexts }
    \cup
    { [ok |-> FALSE, kind |-> "503", text |-> <<>>,
       message |-> <<"[GoogleGenerativeAI Error]: Error fetching from ",
                     "gemini-2.0-flash:generateContent", ": [", "503",
                     " Service Unavailable] The model is ", "overloaded", ".">>],
      [ok |-> FALSE, kind |-> "429", text |-> <<>>,
       message |-> <<"[GoogleGenerativeAI Error]: Error fetching from ",
                     "gemini-2.0-flash:generateContent", ": [", "429",
                     " Too Many Requests] Resource has been exhausted">>],
      [ok |-> FALSE, kind |-> "API key", text |-> <<>>,
       message |-> <<"[GoogleGenerativeAI Error]: Error fetching from ",
                     "gemini-2.0-flash:generateContent", ": [", "400",
                     " Bad Request] ", "API key", " not valid.">>],
      [ok |-> FALSE, kind |-> "blocked", text |-> <<>>,
       message |-> <<"[GoogleGenerativeAI Error]: Candidate was blocked due to SAFETY">>] }

\* Variant: isRetryableError without its first test (503 / overloaded)
isRetryableErrorNo503(error) ==
    \E lit \in {"429", "rate limit", "500", "502", "network", "timeout"} :
        Includes(error.message, <<lit>>)

\* geminiService.ts:303-318
isRetryableError(error) ==
    \E lit \in {"503", "overloaded", "429", "rate limit", "500", "502", "network", "timeout"} :
        Includes(error.message, <<lit>>)

\* geminiService.ts:320-334
getErrorMessage(error) ==
    IF Includes(error.message, <<"503">>) \/ Includes(error.message, <<"overloaded">>)
    THEN <<"Gemini service is temporarily overloaded. Please wait a moment and try again.">>
    ELSE IF Includes(error.message, <<"429">>) \/ Includes(error.message, <<"rate limit">>)
    THEN <<"Rate limit exceeded. Please wait a moment before trying again.">>
    ELSE IF Includes(error.message, <<"API key">>)
    THEN <<"Invalid API key. Please check your Google API key configuration.">>
    ELSE IF Includes(error.message, <<"network">>) \/ Includes(error.message, <<"timeout">>)
    THEN <<"Network error. Please check your internet connection and try again.">>
    ELSE IF Len(error.message) > 0 THEN error.message
    ELSE <<"An unexpected error occurred. Please try again.">>

\* Variant: delay without the doubling
delayConstant(attempt) == Min(1000, 5000)

\* geminiService.ts:283
delay(attempt) == Min(1000 * Pow2(attempt - 1), 5000)

\* The locals of a summarizeArticle call. caught, generated and delays are
\* history: the kinds of the errors caught, the kinds of the answers of
\* generateContent and the delays waited, in order.
NoCall == [pc |-> "idle", available |-> TRUE, callNo |-> 0, url |-> "", attempt |-> 0,
           startTime |-> 0, articleText |-> <<>>, lastError |-> Null,
           fetches |-> 0, caught |-> <<>>, generated |-> <<>>, delays |-> <<>>,
           tried |-> <<>>, result |-> Null]

\* geminiService.ts:275-300: the catch block and what follows the loop
Catch(s, error) ==
    LET seen == [s EXCEPT !.lastError = [message |-> error.message],
                          !.caught = Append(@, error.kind)]
    IN  IF s.attempt < maxRetries /\ isRetryableError(error)
        THEN [seen EXCEPT !.pc = "waiting", !.delays = Append(@, delay(s.attempt))]
        ELSE [seen EXCEPT !.pc = "done",
                          !.result = [success |-> FALSE, error |-> getErrorMessage(error)]]

\* parseResponse of each completion text, evaluated once
ClientParsed == [t \in ClientTexts |-> [u \in URLs |-> parseResponse(t, u)]]

\* geminiService.ts:225-242: the locals of a new summarizeArticle call at its
\* first await, or at its return when the service is not available
Begin(last, url, now) ==
    LET s == [NoCall EXCEPT !.available = last.available, !.callNo = last.callNo + 1,
                            !.url = url, !.attempt = 1, !.startTime = now]
    IN  IF s.available THEN [s EXCEPT !.pc = "fetching"]
        ELSE [s EXCEPT !.pc = "done",
                !.result = [success |-> FALSE,
                   error |-> <<"Gemini service not available. Please check your API key.">>]]

\* geminiService.ts:225-242: a call of summarizeArticle up to its first await
Start(url) ==
    /\ svc.pc \in {"idle", "done"}
    /\ svc.callNo < MaxCalls
    /\ svc' = Begin(svc, url, clock)
    /\ UNCHANGED <<serverVars, langchainGemini, parseVars, pageVars>>

\* geminiService.ts:242-254: fetchArticleContent has settled; the prompt and
\* its images are put together (wrapPromptAndImages catches what it throws)
FetchArticle(proxyResults, streamlitResult) ==
    /\ svc.pc = "fetching"
    /\ LET fetched == fetchArticleContent(proxyResults, streamlitResult)
           s       == [svc EXCEPT !.fetches = @ + 1, !.tried = fetched.tried]
       IN  svc' = IF fetched.ok
                  THEN [s EXCEPT !.pc = "generating", !.articleText = fetched.articleText]
                  ELSE Catch(s, fetched)
    /\ UNCHANGED <<serverVars, langchainGemini, parseVars, pageVars>>

\* geminiService.ts:254-273: generateContent has settled
Generate(out) ==
    /\ svc.pc = "generating"
    /\ LET s == [svc EXCEPT !.generated = Append(@, out.kind)]
       IN  svc' = IF out.ok
                  THEN [s EXCEPT !.pc = "done",
                          !.result = [success |-> TRUE,
                                      data |-> ClientParsed[out.text][svc.url],
                                      processingTime |-> (clock - svc.startTime) \div 1000]]
                  ELSE Catch(s, out)
    /\ UNCHANGED <<serverVars, langchainGemini, parseVars, pageVars>>

\* geminiService.ts:285-286, 230-239: the timer of the backoff fires and the
\* next attempt begins
Retry ==
    /\ svc.pc = "waiting"
    /\ svc' = [svc EXCEPT !.pc = "fetching", !.attempt = @ + 1, !.tried = <<>>]
    /\ clock' = clock + svc.delays[Len(svc.delays)]
    /\ UNCHANGED <<langchainGemini, translationCache, req, lastSet, admin, parseVars, pageVars>>

InitRetry ==
    /\ ServerIdle
    /\ langchainGemini = TRUE
    /\ ParseIdle
    /\ \E available \in BOOLEAN : svc = [NoCall EXCEPT !.available = available]

NextRetry ==
    \/ \E url \in URLs : Start(url)
    \/ \E proxyResults \in [1..4 -> ProxyResults], streamlitResult \in StreamlitResults :
          FetchArticle(proxyResults, streamlitResult)
    \/ \E out \in GenerateOutcomes : Generate(out)
    \/ Retry

SpecRetry == InitRetry /\ [][NextRetry]_vars


C16_LowConfidenceFlag ==
    \A r \in 1..MaxRequests :
        ( /\ req[r].status = 200
          /\ req[r].body.articleTitle = <<"Not", " ", "specified">>
          /\ req[r].body.teams = <<>> )
        => req[r].body.translationConfidence < 95

\* C19 as stated: a request that has ended in an error has changed nothing
\* in the cache.
C19_FailedRequestLeavesCache ==
    \A r \in 1..MaxRequests :
        (req[r].pc = "done" /\ req[r].status # 200) => ~req[r].touched

\* C19, amended: a request goes through lookup, fetch, completion call and
\* parse in this order, each at most once; the Map is written only in the
\* step that parses a completion, and then under the request's own key;
\* the only other change a request makes to the Map is the deletion of its
\* own URL's expired entry at the lookup. So a request that fails writes
\* nothing and leaves every fresh entry and every other key's entry alone.
C19_PipelineOrder ==
    [][ \A r \in 1..MaxRequests :
          req'[r] # req[r] =>
            LET k == KeyOf(req'[r].url)
            IN  /\ <<req[r].pc, req'[r].pc>> \in
                      {<<"idle", "done">>, <<"idle", "fetching">>,
                       <<"fetching", "done">>, <<"fetching", "invoking">>,
                       <<"invoking", "done">>}
                /\ req'[r].fetches = (IF req'[r].pc = "fetching" THEN 1 ELSE req[r].fetches)
                /\ req'[r].calls = (IF req'[r].pc = "invoking" THEN 1 ELSE req[r].calls)
                /\ req'[r].calls <= req'[r].fetches
                /\ IF req[r].pc = "invoking" /\ req'[r].status = 200
                   THEN /\ DOMAIN translationCache' = DOMAIN translationCache \cup {k}
                        /\ translationCache'[k] = [data |-> req'[r].body, timestamp |-> clock]
                        /\ \A j \in DOMAIN translationCache \ {k} :
                              translationCache'[j] = translationCache[j]
                   ELSE IF /\ req[r].pc = "idle"
                           /\ k \in DOMAIN translationCache
                           /\ clock - translationCache[k].timestamp >= 86400000
                   THEN /\ DOMAIN translationCache' = DOMAIN translationCache \ {k}
                        /\ \A j \in DOMAIN translationCache' :
                              translationCache'[j] = translationCache[j]
                   ELSE translationCache' = translationCache
      ]_vars

\* C19's case: a request has deleted the expired entry of its URL at the
\* lookup and has then failed
C19_Witness ==
    \E r \in 1..MaxRequests :
        /\ req[r].pc = "done"
        /\ req[r].status = 500
        /\ req[r].touched
        /\ KeyOf(req[r].url) \notin DOMAIN translationCache

-----------------------------------------------------------------------------
(* SpecText: both parsers on completion texts put together from a shape *)

MemberNames == <<"Gholdengo", "Urshifu", "Rillaboom", "Incineroar", "Amoonguss",
                 "Landorus", "Tornadus", "Ogerpon", "Farigiraf">>

FieldNames == <<"Ability", "Held Item", "Tera Type", "Moves", "EV Spread", "Nature",
                "EV Explanation">>

\* The label of a field as the text prints it
FieldLabel(f) ==
    CASE f = "Ability"        -> <<"Ability", ":">>
      [] f = "Held Item"      -> <<"Held", " ", "Item", ":">>
      [] f = "Tera Type"      -> <<"Tera", " ", "Type", ":">>
      [] f = "Moves"          -> <<"Moves", ":">>
      [] f = "EV Spread"      -> <<"EV", " ", "Spread", ":">>
      [] f = "Nature"         -> <<"Nature", ":">>
      [] f = "EV Explanation" -> <<"EV", " ", "Explanation", ":">>

\* The value of the Moves line, by the kind of the line
MovesValue(kind) ==
    CASE kind = "two"   -> <<"Make", " ", "It", " ", "Rain", " ", "/", " ", "Protect">>
      [] kind = "gap"   -> <<"Make", " ", "It", " ", "Rain", " ", "/", " ", "/", " ", "Protect">>
      [] kind = "lead"  -> <<"/", " ", "Protect">>
      [] kind = "trail" -> <<"Protect", " ", "/">>
      [] kind = "slash" -> <<"/">>

\* The value the text gives field f of member i: it carries the member's
\* number, so that no two members share a value
FieldValue(f, i, moves) ==
    CASE f = "Ability"        -> <<"Pressure", " ">> \o Render(i)
      [] f = "Held Item"      -> <<"Berry", " ">> \o Render(i)
      [] f = "Tera Type"      -> <<"Steel", " ">> \o Render(i)
      [] f = "Moves"          -> MovesValue(moves)
      [] f = "EV Spread"      -> EVText(<<4, 0, 0, 0, 0, 4 * i>>)
      [] f = "Nature"         -> <<"Modest", " ">> \o Render(i)
      [] f = "EV Explanation" -> <<"Outspeeds", " ">> \o Render(i)

FieldLine(f, i, moves) == <<"-", " ">> \o FieldLabel(f) \o <<" ">> \o FieldValue(f, i, moves) \o <<"\n">>

\* The order of the field lines: that of the prompt, or with the Nature
\* line behind the EV Explanation
FieldOrder(order) ==
    IF order = "prompt" THEN FieldNames
    ELSE <<"Ability", "Held Item", "Tera Type", "Moves", "EV Spread", "EV Explanation",
           "Nature">>

\* The text of member i: its marker, its name and its field lines, without
\* the line of the field named missing
MemberText(i, missing, moves, order) ==
    LET fields == FieldOrder(order)
        lines  == [k \in DOMAIN fields |->
                      IF fields[k] = missing THEN <<>> ELSE FieldLine(fields[k], i, moves)]
    IN  Marker(i) \o <<" ", "[", MemberNames[i], "]", "*", "*", "\n">>
        \o JoinWith(lines, <<>>)

\* The title line, by its kind
TitleText(kind) ==
    CASE kind = "none"   -> <<>>
      [] kind = "plain"  -> <<"TITLE", ":", " ", "Test", " ", "Article", "\n">>
      [] kind = "padded" -> <<"TITLE", ":", " ", " ", "Test", " ", "Article", " ", " ", "\n">>
      [] kind = "blank"  -> <<"TITLE", ":", " ", "\n">>
      [] kind = "lower"  -> <<"Title", ":", " ", "Test", " ", "Article", "\n">>

\* A shape: the kind of the title line, the number of members, the member
\* and the field whose line is left out (member 0: none), the kind of the
\* Moves line of member 1 and the order of the field lines
ShapeOf(title, count, member0, field, moves, order) ==
    [title |-> title, count |-> count, missingIn |-> member0, missing |-> field,
     moves |-> moves, order |-> order]

Shapes ==
    { ShapeOf(t, k, 0, "none", "two", "prompt") :
         t \in {"none", "plain", "padded", "blank", "lower"}, k \in 0..MaxMembers }
    \cup
    { ShapeOf("plain", 2, m, f, "two", o) :
         m \in 1..2, f \in Range(FieldNames), o \in {"prompt", "natureLast"} }
    \cup
    { ShapeOf("plain", 2, 0, "none", "two", "natureLast") }
    \cup
    { ShapeOf("plain", 1, 0, "none", mv, "prompt") :
         mv \in {"gap", "lead", "trail", "slash"} }

\* The completion text of a shape
TextOf(sh) ==
    TitleText(sh.title)
    \o JoinWith([i \in 1..sh.count |->
                    MemberText(i, IF i = sh.missingIn THEN sh.missing ELSE "none",
                               IF i = 1 THEN sh.moves ELSE "two", sh.order)], <<>>)

InitText ==
    /\ ServerIdle
    /\ langchainGemini = TRUE
    /\ SvcIdle
    /\ evNums = <<>>
    /\ segment = <<>>
    /\ evOut = Null
    /\ member = Null
    /\ shape \in Shapes
    /\ analysis = Null
    /\ clientAnalysis = Null
    /\ PageIdle

\* server.js:913: parseGeminiResponse(text)
ParseServer ==
    /\ analysis = Null
    /\ analysis' = parseGeminiResponse(TextOf(shape), clock)
    /\ UNCHANGED <<shape, clientAnalysis, evNums, segment, evOut, member,
                   serverVars, langchainGemini, svc, pageVars>>

\* geminiService.ts:260: this.parseResponse(summaryText, url)
ParseClient ==
    /\ clientAnalysis = Null
    /\ clientAnalysis' = parseResponse(TextOf(shape), "https://a.example/team")
    /\ UNCHANGED <<shape, analysis, evNums, segment, evOut, member,
                   serverVars, langchainGemini, svc, pageVars>>

NextText == ParseServer \/ ParseClient

SpecText == InitText /\ [][NextText]_vars

-----------------------------------------------------------------------------
(* Claims about the completion client (SpecRetry) *)

\* In this step the catch block of summarizeArticle has run
Failed == Len(svc'.caught) = Len(svc.caught) + 1

\* C5: one analysis makes at most 3 attempts; a rate-limit, transient
\* server or timeout failure on attempt k < 3 is followed by a wait of
\* min(1000 * 2^(k-1), 5000) ms and the next attempt; a bad-API-key failure
\* ends the analysis at once with the failure and no further attempt; and
\* the third attempt's failure ends it whatever its kind.
C5_RetryPolicy ==
    [][ /\ svc'.attempt <= 3
        /\ svc'.fetches <= 3
        /\ Len(svc'.generated) <= 3
        /\ Failed =>
             LET k    == svc.attempt
                 kind == svc'.caught[Len(svc'.caught)]
             IN  /\ svc'.attempt = k
                 /\ (k < 3 /\ kind \in {"429", "503", "fetch 500", "fetch timeout"}) =>
                       /\ svc'.pc = "waiting"
                       /\ svc'.result = Null
                       /\ svc'.delays = Append(svc.delays, IF k = 1 THEN 1000 ELSE 2000)
                 /\ (k = 3 \/ kind = "API key") =>
                       /\ svc'.pc = "done"
                       /\ svc'.result.success = FALSE
                       /\ svc'.delays = svc.delays
                 /\ svc'.pc \in {"waiting", "done"}
        /\ svc.pc = "waiting" =>
             /\ svc'.pc = "fetching"
             /\ svc'.attempt = svc.attempt + 1
             /\ clock' - clock = (IF svc.attempt = 1 THEN 1000 ELSE 2000)
        /\ (svc.pc = "done" /\ svc'.callNo = svc.callNo) => svc' = svc
      ]_vars

\* C5's case: two retryable failures were waited for 1000 and 2000 ms and
\* the third attempt's failure ended the analysis
C5_Witness ==
    /\ svc.pc = "done"
    /\ svc.attempt = 3
    /\ svc.delays = <<1000, 2000>>
    /\ Len(svc.caught) = 3
    /\ svc.result.success = FALSE

\* C6: while the only failures of an analysis are HTTP 503 answers of the
\* completion service on its first two attempts, no error is returned; and
\* when the third attempt's completion call succeeds, the analysis returns
\* a successful result that carries the parsed data and no error.
C6_TransparentRetry ==
    /\ (svc.caught \in {<<"503">>, <<"503", "503">>} /\ svc.result # Null) =>
          svc.result.success
    /\ svc.generated \in {<<"503", "503", "ok">>} =>
          /\ svc.pc = "done"
          /\ svc.attempt = 3
          /\ svc.result.success
          /\ "error" \notin DOMAIN svc.result
          /\ svc.result.data \in {parseResponse(t, svc.url) : t \in ClientTexts}

\* C6's case: 503, 503, then a completion, and the call has returned
C6_Witness ==
    /\ svc.generated = <<"503", "503", "ok">>
    /\ svc.pc = "done"
    /\ svc.result.success

\* C17: when the fetch has succeeded and no text was extracted from the
\* page, no completion-service call is made.
C17_EmptyContentMakesNoCall ==
    ~(svc.pc = "generating" /\ svc.articleText = <<>>)

\* C20: within one analysis the article is fetched at most once; the
\* attempts of the retry loop repeat the completion call only.
C20_FetchAtMostOnce ==
    svc.fetches <= 1

\* C21: the fetch strategies are tried in their fixed order: a strategy that
\* answers with an error, a timeout or an empty body is followed by the next
\* one of the list, and the first strategy that answers with a page is the
\* last one tried.
C21_StrategiesInOrder ==
    LET t == svc.tried
    IN  /\ \A k \in DOMAIN t : t[k].strategy = k
        /\ \A k \in DOMAIN t : t[k].answer = "page" => k = Len(t)
        /\ \A k \in DOMAIN t : (k = Len(t) /\ t[k].answer # "page") => t[k].strategy = Streamlit

-----------------------------------------------------------------------------
(* Claims about the validator and the member parser (SpecParse) *)

\* A value the EV rules accept that is no three-digit value of 100..399
ValidEV(n) == n \in 0..252 /\ n % 4 = 0 /\ n \notin 100..399

\* C8: for every spread string whose numbers are all multiples of 4 in
\* [0,252] and none in [100,399], validateAndFixEVSpread returns the string
\* unchanged, and the member parsed from the segment carries it unchanged
\* (no sentinel).
C8_IdentityOnValid ==
    (evNums # <<>> /\ \A k \in DOMAIN evNums : ValidEV(evNums[k])) =>
        /\ evOut # Null => evOut.result = EVText(evNums)
        /\ member # Null => /\ member.evSpread = EVText(evNums)
                            /\ member.evSpread \notin EVSentinels

\* C8's case: a six-number valid spread has been validated and parsed
C8_Witness ==
    /\ evNums = <<32, 32, 32, 32, 32, 32>>
    /\ evOut # Null
    /\ evOut.result = EVText(evNums)
    /\ member # Null
    /\ member.evs = evNums

\* C9: on a spread of six numbers the rules apply in order and the first
\* that fails decides: (1) a number in [100,399] gives the 'final stat
\* values detected' sentinel; (2) otherwise a number outside [0,252] or not
\* a multiple of 4 gives the 'invalid EV values detected' sentinel;
\* (3) otherwise the spread is returned as it is.
C9_RulesInOrder ==
    (Len(evNums) = 6 /\ evOut # Null) =>
        evOut.result =
           (IF \E k \in 1..6 : evNums[k] \in 100..399 THEN EVsFinalStats
            ELSE IF \E k \in 1..6 : evNums[k] \notin 0..252 \/ evNums[k] % 4 # 0
                 THEN EVsInvalid
            ELSE EVText(evNums))

\* C10: the segment with 'EV Spread: 252 0 4 252 0 0' and nature Modest is
\* parsed into a member with the EVs (252, 0, 4, 252, 0, 0), 0 EVs
\* remaining of 508, nature 'Modest' and a spread that is no sentinel.
C10_ScenarioTwo ==
    ( /\ member # Null
      /\ evNums = <<252, 0, 4, 252, 0, 0>>
      /\ segment = SegmentText("Gholdengo", evNums, <<"Modest">>) )
    => /\ member.evs = <<252, 0, 4, 252, 0, 0>>
       /\ member.remainingEvs = 0
       /\ member.nature = <<"Modest">>
       /\ member.evSpread \notin EVSentinels

\* C11: a spread of six unsigned numbers that the validator lets through
\* (the member's evSpread is no sentinel) has the sum of its numbers at
\* most 508, so that the member's remaining EVs are not negative.
C11_AcceptedSpreadWithinBudget ==
    ( /\ member # Null
      /\ Len(evNums) = 6
      /\ \A k \in 1..6 : evNums[k] >= 0
      /\ member.evSpread \notin EVSentinels )
    => /\ evNums[1] + evNums[2] + evNums[3] + evNums[4] + evNums[5] + evNums[6] <= 508
       /\ member.remainingEvs >= 0

-----------------------------------------------------------------------------
(* Claims about the two parsers on whole completion texts (SpecText) *)

\* A shape whose members all have the seven field lines in the order of the
\* prompt and two moves
PlainShape(sh) == sh.missingIn = 0 /\ sh.moves = "two" /\ sh.order = "prompt"

TwoMoves == <<<<"Make", " ", "It", " ", "Rain">>, <<"Protect">>>>

\* What the text says about member i, as a record of the server's parser
ServerRecordOf(i) ==
    [pokemon  |-> <<MemberNames[i]>>,
     teraType |-> <<"Steel", " ">> \o Render(i),
     item     |-> <<"Berry", " ">> \o Render(i),
     ability  |-> <<"Pressure", " ">> \o Render(i),
     nature   |-> <<"Modest", " ">> \o Render(i),
     moves    |-> [k \in 1..2 |-> [name |-> TwoMoves[k]]],
     evs      |-> <<4, 0, 0, 0, 0, 4 * i>>,
     remainingEvs |-> 508 - 4 - 4 * i,
     strategy |-> <<"Outspeeds", " ">> \o Render(i),
     evSpread |-> EVText(<<4, 0, 0, 0, 0, 4 * i>>)]

\* What the text says about member i of count, as a record of the client's
\* parser: the name is the whole first line, and the explanation of a member
\* that another marker follows ends with the two asterisks of that marker
ClientRecordOf(i, count) ==
    [name     |-> <<"[", MemberNames[i], "]", "*", "*">>,
     ability  |-> <<"Pressure", " ">> \o Render(i),
     item     |-> <<"Berry", " ">> \o Render(i),
     teraType |-> <<"Steel", " ">> \o Render(i),
     moves    |-> TwoMoves,
     nature   |-> <<"Modest", " ">> \o Render(i),
     evs      |-> [hp |-> 4, attack |-> 0, defense |-> 0, spAtk |-> 0, spDef |-> 0,
                   speed |-> 4 * i],
     evExplanation |-> <<"Outspeeds", " ">> \o Render(i)
                       \o (IF i < count THEN <<"\n", "*", "*">> ELSE <<>>)]

\* C12: a completion text with k member markers yields exactly min(k, 6)
\* team-member records in both parsers; they are built from the first
\* markers in text order, each from the text of its own member only, and
\* the text of a seventh or later member reaches no record and raises no error.
C12_FirstSixMembers ==
    /\ analysis # Null =>
          /\ Len(analysis.teams) = Min(shape.count, 6)
          /\ PlainShape(shape) =>
                analysis.teams = [i \in 1..Min(shape.count, 6) |-> ServerRecordOf(i)]
    /\ clientAnalysis # Null =>
          /\ Len(clientAnalysis.team) = Min(shape.count, 6)
          /\ PlainShape(shape) =>
                clientAnalysis.team =
                    [i \in 1..Min(shape.count, 6) |-> ClientRecordOf(i, shape.count)]

C12_Witness ==
    /\ shape.count > 6
    /\ analysis # Null /\ Len(analysis.teams) = 6
    /\ clientAnalysis # Null /\ Len(clientAnalysis.team) = 6

\* The shape with the line that sh leaves out put back
Complete(sh) == [sh EXCEPT !.missingIn = 0, !.missing = "none"]

\* The record keys a field line fills, in the server's and the client's record
ServerKeysOf(f) ==
    CASE f = "Ability"        -> {"ability"}
      [] f = "Held Item"      -> {"item"}
      [] f = "Tera Type"      -> {"teraType"}
      [] f = "Moves"          -> {"moves"}
      [] f = "EV Spread"      -> {"evSpread", "evs", "remainingEvs"}
      [] f = "Nature"         -> {"nature"}
      [] f = "EV Explanation" -> {"strategy"}

ClientKeysOf(f) ==
    CASE f = "Ability"        -> {"ability"}
      [] f = "Held Item"      -> {"item"}
      [] f = "Tera Type"      -> {"teraType"}
      [] f = "Moves"          -> {"moves"}
      [] f = "EV Spread"      -> {"evs"}
      [] f = "Nature"         -> {"nature"}
      [] f = "EV Explanation" -> {"evExplanation"}

\* The value a record key has when its field was not found
DefaultOf(key) ==
    CASE key = "moves"        -> <<>>
      [] key = "remainingEvs" -> 508
      [] OTHER                -> NotSpecified

\* got differs from full in the keys of member m alone, which hold their defaults
OnlyDefaulted(got, full, m, keys, zeroEvs) ==
    /\ Len(got) = Len(full)
    /\ \A i \in DOMAIN full : \A key \in DOMAIN full[i] :
          IF i = m /\ key \in keys
          THEN got[i][key] = (IF key = "evs" THEN zeroEvs ELSE DefaultOf(key))
          ELSE got[i][key] = full[i][key]

\* C13: when the label of one field is absent from a member segment, exactly
\* that field of that member has its default, and every other field of the
\* segment and every field of the other segments has the value it has when
\* the label is present.
C13_FieldIndependence ==
    shape.missingIn > 0 =>
       /\ analysis # Null =>
             OnlyDefaulted(analysis.teams,
                           parseGeminiResponse(TextOf(Complete(shape)), clock).teams,
                           shape.missingIn, ServerKeysOf(shape.missing),
                           <<0, 0, 0, 0, 0, 0>>)
       /\ clientAnalysis # Null =>
             OnlyDefaulted(clientAnalysis.team,
                           parseResponse(TextOf(Complete(shape)),
                                         "https://a.example/team").team,
                           shape.missingIn, ClientKeysOf(shape.missing), Null)

\* C14: no parsed member has a move whose name is the empty string: the
\* moves are the non-empty trimmed pieces of the Moves line, in order.
C14_NoEmptyMove ==
    /\ analysis # Null =>
          \A i \in DOMAIN analysis.teams : \A k \in DOMAIN analysis.teams[i].moves :
             analysis.teams[i].moves[k].name # <<>>
    /\ clientAnalysis # Null =>
          \A i \in DOMAIN clientAnalysis.team : \A k \in DOMAIN clientAnalysis.team[i].moves :
             clientAnalysis.team[i].moves[k] # <<>>

\* The title a text of the given kind carries on its title line, trimmed
TitleOfLine(kind) ==
    CASE kind = "none"   -> NotSpecified
      [] kind = "blank"  -> <<>>
      [] OTHER           -> <<"Test", " ", "Article">>

\* C15: the title of an analysis is the text of the title line, trimmed, and
\* 'Not specified' when the text has no title marker.
C15_TitleFromMarkerLine ==
    shape.title # "lower" =>
       /\ analysis # Null => analysis.articleTitle = TitleOfLine(shape.title)
       /\ clientAnalysis # Null => clientAnalysis.title = TitleOfLine(shape.title)

-----------------------------------------------------------------------------
(* Claims about rejected EV spreads in the server's replies (Spec) *)

FinalStatSpread == <<175, 207, 111, 202, 156, 97>>

\* The keys of a team member the EV Spread line fills
SpreadKeys == {"evSpread", "evs", "remainingEvs"}

\* C22: a rejected EV spread downgrades one field only. When the reply to a
\* request is computed from the two-member text whose first spread the
\* validator rejects, the first member has the sentinel as evSpread, six
\* EVs of 0 and 508 remaining, all its other fields and the whole second
\* member are what the text with an accepted first spread gives, and the
\* reply is a 200 that is written to the cache.
C22_InvalidSpreadDowngradesOneField ==
    [][\A r \in 1..MaxRequests :
          (/\ req[r].pc = "invoking"
           /\ req'[r].pc = "done"
           /\ req'[r].status = 200
           /\ req'[r].body.originalText = TeamText(FinalStatSpread))
          => LET got  == req'[r].body.teams
                 twin == parseGeminiResponse(TeamText(<<4, 0, 0, 0, 0, 0>>), clock).teams
             IN  /\ Len(got) = 2
                 /\ got[1].evSpread = EVsFinalStats
                 /\ got[1].evs = <<0, 0, 0, 0, 0, 0>>
                 /\ got[1].remainingEvs = 508
                 /\ \A key \in DOMAIN twin[1] \ SpreadKeys : got[1][key] = twin[1][key]
                 /\ twin[1].evSpread = EVText(<<4, 0, 0, 0, 0, 0>>)
                 /\ got[2] = twin[2]
                 /\ HasKey(translationCache', KeyOf(req[r].url))
                 /\ translationCache'[KeyOf(req[r].url)]
                       = [data |-> req'[r].body, timestamp |-> clock]]_vars

C22_Witness ==
    \E r \in 1..MaxRequests :
        /\ req[r].pc = "done"
        /\ req[r].status = 200
        /\ req[r].cachedResult = Null
        /\ req[r].body.originalText = TeamText(FinalStatSpread)
        /\ req[r].body.teams[1].evSpread = EVsFinalStats
        /\ req[r].body.teams[2].evSpread = EVText(<<4, 0, 0, 0, 0, 0>>)
        /\ HasKey(translationCache, KeyOf(req[r].url))

-----------------------------------------------------------------------------
(* SpecFair: the server with the progress its code guarantees. axios.get is
   called with timeout: 15000, so a fetch that has begun settles; nothing
   bounds langchainGemini.invoke, whose answer is the completion service's
   to give. *)

SpecFair ==
    /\ Spec
    /\ \A r \in 1..MaxRequests : WF_vars(\E out \in FetchOutcomes : FetchDone(r, out))

\* C23: a request that waits for the completion service is eventually
\* answered, whether or not the service responds.
C23_CompletionCallBounded ==
    \A r \in 1..MaxRequests : (req[r].pc = "invoking") ~> (req[r].pc = "done")

-----------------------------------------------------------------------------
(* SpecClean: the cleaning of the extracted text, server.js:579-587. The
   text is a sequence of characters here: a letter, a blank, a line break,
   a zero-width space and a character outside the allowed set. *)

\* [\u200b\xa0\u200e\u200f]
Invisible == {"ZWSP", "NBSP"}

\* A character the third replace removes: neither \w, \s nor one of the
\* listed punctuation marks (every Japanese character is one)
Disallowed == {"jp"}

TextChars == {"a", " ", "\n", "ZWSP", "jp"}

\* allText.replace(/[\u200b\xa0\u200e\u200f]/g, ' ')
ReplaceInvisible(s) == [i \in DOMAIN s |-> IF s[i] \in Invisible THEN " " ELSE s[i]]

\* allText.replace(/\s+/g, ' ')
CollapseWhitespace(s) ==
    LET kept == {i \in DOMAIN s : s[i] \notin Whitespace
                                  \/ i = 1 \/ s[i - 1] \notin Whitespace}
    IN  [k \in 1..Cardinality(kept) |->
            IF s[Kth(kept, k)] \in Whitespace THEN " " ELSE s[Kth(kept, k)]]

\* allText.replace(/[^\w\s\-\.\,\!\?\:\;\(\)\[\]\{\}\/\@\#\$\%\&\*\+\=\|\~\`\'\"]/g, '')
StripDisallowed(s) ==
    LET kept == {i \in DOMAIN s : s[i] \notin Disallowed}
    IN  [k \in 1..Cardinality(kept) |-> s[Kth(kept, k)]]

\* server.js:583-587: the four steps in the order of the code
cleanText(s) == Trim(StripDisallowed(CollapseWhitespace(ReplaceInvisible(s))))

\* All texts of at most n characters
TextsUpTo(n) == UNION {[1..k -> TextChars] : k \in 0..n}

\* The parser's variables before any text is parsed
ParserIdle ==
    /\ evNums = <<>>
    /\ segment = <<>>
    /\ evOut = Null
    /\ member = Null
    /\ TextIdle

InitClean ==
    /\ ServerIdle
    /\ langchainGemini = TRUE
    /\ SvcIdle
    /\ ParserIdle
    /\ AppIdle
    /\ throttle = Null
    /\ \E raw \in TextsUpTo(MaxTextLen) :
          allText = [raw |-> raw, text |-> raw, before |-> raw, passes |-> 0]

\* One pass of the cleaning over the text as it is now
Clean ==
    /\ allText.passes < 2
    /\ allText' = [allText EXCEPT !.text = cleanText(allText.text),
                                  !.before = allText.text,
                                  !.passes = @ + 1]
    /\ UNCHANGED <<serverVars, langchainGemini, svc, parseVars, appVars, throttle>>

NextClean == Clean

SpecClean == InitClean /\ [][NextClean]_vars

\* C24: the cleaning is idempotent: cleaned text has no run of two or more
\* whitespace characters and no whitespace at either end, and cleaning it
\* again returns it unchanged.
C24_CleaningIdempotent ==
    /\ allText.passes >= 1 =>
          /\ \A i \in 1..(Len(allText.text) - 1) :
                ~(allText.text[i] \in Whitespace /\ allText.text[i + 1] \in Whitespace)
          /\ Len(allText.text) > 0 =>
                /\ allText.text[1] \notin Whitespace
                /\ allText.text[Len(allText.text)] \notin Whitespace
    /\ allText.passes = 2 => allText.text = allText.before

-----------------------------------------------------------------------------
(* useGemini.ts: the hook *)

\* useGemini.ts:18-20. An error is kept as a record with its text.
HookInitial == [isLoading |-> FALSE, result |-> Null, error |-> Null]

\* useGemini.ts:23-25: setIsLoading(true); setError(null); setResult(null)
HookStarted(h) == [isLoading |-> TRUE, result |-> Null, error |-> Null]

\* Variant: the hook without the finally block that ends the loading
HookSettledKeepsLoading(h, response) ==
    IF response.success THEN [h EXCEPT !.result = response.data]
    ELSE [h EXCEPT !.error = [text |-> response.error]]

\* useGemini.ts:28-39: what follows the await. Every successful response
\* of the service carries data, and every failed one a non-empty error.
HookSettled(h, response) ==
    IF response.success
    THEN [h EXCEPT !.result = response.data, !.isLoading = FALSE]
    ELSE [h EXCEPT !.error = [text |-> response.error], !.isLoading = FALSE]

\* useGemini.ts:42-46
HookReset(h) == [isLoading |-> FALSE, result |-> Null, error |-> Null]

-----------------------------------------------------------------------------
(* AnalyticsContext.tsx *)

\* AnalyticsContext.tsx:23-29, the counters of defaultAnalytics
defaultAnalytics == [total_searches |-> 0, total_teams_viewed |-> 0, total_summaries |-> 0]

\* The counter a track function adds to
CounterOf(event) ==
    CASE event = "search"    -> "total_searches"
      [] event = "team_view" -> "total_teams_viewed"
      [] event = "summary"   -> "total_summaries"

\* AnalyticsContext.tsx:67-113: newAnalytics of trackSearch, trackTeamView
\* and trackSummary, built from the analytics the function closed over
Tracked(analytics, event) == [analytics EXCEPT ![CounterOf(event)] = @ + 1]

-----------------------------------------------------------------------------
(* Summarizer (part_003:461-669) *)

\* part_003:614-616: result?.teams && result.teams.length > 0. A property
\* the object does not have reads as undefined.
hasTeams(result) ==
    /\ result # Null
    /\ "teams" \in DOMAIN result
    /\ Len(result.teams) > 0

\* part_003:619-665, the save-teams effect: the value of 'translatedTeams'
\* after the effect has run for result and url
SaveTeams(existingTeams, result, url) ==
    IF hasTeams(result)
    THEN existingTeams \o [i \in DOMAIN result.teams |->
                              [pokemon      |-> result.teams[i].name,
                               articleTitle |-> result.articleTitle,
                               articleUrl   |-> url]]
    ELSE existingTeams

\* The page and its providers once mounted
InitPage ==
    /\ ServerIdle
    /\ langchainGemini = TRUE
    /\ ParserIdle
    /\ allText = Null
    /\ throttle = Null
    /\ \E available \in BOOLEAN : svc = [NoCall EXCEPT !.available = available]
    /\ hook = HookInitial
    /\ calls = <<>>
    /\ page = [url |-> "", toasts |-> <<>>, awaiting |-> FALSE, trackSummary |-> defaultAnalytics]
    /\ localStorage = [analytics |-> Null, translatedTeams |-> <<>>]
    /\ provider = [analytics |-> defaultAnalytics]

\* part_003:512-532, 473-478 and useGemini.ts:22-27: the form is submitted
\* (the submit button is enabled while there is no error and nothing is
\* loading, the retry button is shown while there is an error): reset(),
\* the loading toast, and the hook's summarizeArticle up to its await.
\* handleSummarization keeps the trackSummary of the render it was made in.
Submit(url) ==
    /\ svc.pc \in {"idle", "done"}
    /\ svc.callNo < MaxCalls
    /\ ~page.awaiting
    /\ \/ hook.error = Null /\ ~hook.isLoading
       \/ hook.error # Null
    /\ IF ~svc.available
       THEN /\ page' = [page EXCEPT !.url = url, !.toasts = Append(@, "error")]
            /\ svc' = [svc EXCEPT !.callNo = @ + 1]
            /\ UNCHANGED hook
       ELSE /\ hook' = HookStarted(HookReset(hook))
            /\ svc' = Begin(svc, url, clock)
            /\ page' = [page EXCEPT !.url = url, !.toasts = Append(@, "loading"),
                                    !.awaiting = TRUE,
                                    !.trackSummary = provider.analytics]
    /\ UNCHANGED <<serverVars, langchainGemini, parseVars, allText, throttle,
                   calls, localStorage, provider>>

\* useGemini.ts:28-39, part_003:479-481 and 619-669: the service's promise
\* has resolved. The hook stores the response; handleSummarization goes on
\* behind its await with trackSummary() and toast.success(..., {id}); the
\* page renders and the save-teams effect runs for the new result.
Settle ==
    /\ svc.pc = "done"
    /\ page.awaiting
    /\ LET settled      == HookSettled(hook, svc.result)
           newAnalytics == Tracked(page.trackSummary, "summary")
       IN  /\ hook' = settled
           /\ provider' = [provider EXCEPT !.analytics = newAnalytics]
           /\ localStorage' =
                 [localStorage EXCEPT
                     !.analytics = newAnalytics,
                     !.translatedTeams = SaveTeams(@, settled.result, page.url)]
           /\ page' = [page EXCEPT !.awaiting = FALSE,
                                   !.toasts = [@ EXCEPT ![Len(@)] = "success"]]
    /\ UNCHANGED <<serverVars, langchainGemini, parseVars, allText, throttle, calls, svc>>

\* What the four proxies answer while the page is used: all the same, with
\* the fallback failing
PageProxyResults == {"html", "500", "failed"}

NextPage ==
    \/ Submit("https://a.example/team")
    \/ \E result \in PageProxyResults : FetchArticle([k \in 1..4 |-> result], "failed")
    \/ \E out \in GenerateOutcomes : Generate(out)
    \/ Retry
    \/ Settle

SpecPage == InitPage /\ [][NextPage]_vars

\* SpecPageFair: the page with the progress the claim's proviso and the
\* event loop give: every network request of the service settles, the
\* timer of the backoff fires, and the continuations behind an await run.
SpecPageFair ==
    /\ SpecPage
    /\ WF_vars(\E result \in PageProxyResults :
                  FetchArticle([k \in 1..4 |-> result], "failed"))
    /\ WF_vars(\E out \in GenerateOutcomes : Generate(out))
    /\ WF_vars(Retry)
    /\ WF_vars(Settle)

-----------------------------------------------------------------------------
(* Claims about the Summarizer page and the hook under it (SpecPage) *)

\* Exactly one of result and error is set
OneOutcome(h) == (h.result = Null) # (h.error = Null)

C27_SuccessOnlyForResult ==
    [][(page.awaiting /\ ~page'.awaiting /\ hook'.result = Null)
          => /\ page'.toasts[Len(page'.toasts)] # "success"
             /\ provider'.analytics.total_summaries = provider.analytics.total_summaries]_vars

\* C28: when an analysis settles with at least one parsed team member, the
\* page has teams to show and 'translatedTeams' is what it was, followed by
\* one entry per member, in order, with the article's title and URL.
C28_TeamsSaved ==
    [][(/\ page.awaiting /\ ~page'.awaiting
        /\ hook'.result # Null
        /\ Len(hook'.result.team) > 0)
          => /\ hasTeams(hook'.result)
             /\ localStorage'.translatedTeams
                   = localStorage.translatedTeams
                     \o [i \in DOMAIN hook'.result.team |->
                            [pokemon      |-> hook'.result.team[i].name,
                             articleTitle |-> hook'.result.title,
                             articleUrl   |-> page.url]]]_vars

-----------------------------------------------------------------------------
(* SpecHook: the hook as its callers may use it. summarizeArticle and reset
   are callable at any time; the service's promise of each call resolves
   with one of the responses summarizeArticle can give. *)

\* The responses geminiService.summarizeArticle resolves with
ServiceResponses(url) ==
    { [success |-> TRUE, data |-> ClientParsed[t][url]] : t \in ClientTexts }
    \cup
    { [success |-> FALSE, error |-> getErrorMessage(out)] :
         out \in {o \in GenerateOutcomes : ~o.ok} }

InitHook ==
    /\ ServerIdle
    /\ langchainGemini = TRUE
    /\ SvcIdle
    /\ ParserIdle
    /\ allText = Null
    /\ throttle = Null
    /\ hook = HookInitial
    /\ calls = <<>>
    /\ page = Null
    /\ localStorage = Null
    /\ provider = Null

\* Every call made so far has a newer operation behind it
Superseded(cs) == [k \in DOMAIN cs |-> [cs[k] EXCEPT !.superseded = TRUE]]

\* useGemini.ts:22-27: summarizeArticle(url) up to its await
HookSummarize(url) ==
    /\ Len(calls) < MaxHookCalls
    /\ hook' = HookStarted(hook)
    /\ calls' = Append(Superseded(calls), [url |-> url, pending |-> TRUE, superseded |-> FALSE])
    /\ UNCHANGED <<serverVars, langchainGemini, svc, parseVars, allText, throttle,
                   page, localStorage, provider>>

\* useGemini.ts:42-46: reset()
HookResetCall ==
    /\ hook' = HookReset(hook)
    /\ calls' = Superseded(calls)
    /\ UNCHANGED <<serverVars, langchainGemini, svc, parseVars, allText, throttle,
                   page, localStorage, provider>>

\* useGemini.ts:27-39: the promise of call k resolves and the call goes on
\* behind its await
HookResolve(k, response) ==
    /\ k \in DOMAIN calls
    /\ calls[k].pending
    /\ response \in ServiceResponses(calls[k].url)
    /\ hook' = HookSettled(hook, response)
    /\ calls' = [calls EXCEPT ![k].pending = FALSE]
    /\ UNCHANGED <<serverVars, langchainGemini, svc, parseVars, allText, throttle,
                   page, localStorage, provider>>

NextHook ==
    \/ \E url \in URLs : HookSummarize(url)
    \/ HookResetCall
    \/ \E k \in 1..MaxHookCalls, response \in UNION {ServiceResponses(url) : url \in URLs} :
          HookResolve(k, response)

SpecHook == InitHook /\ [][NextHook]_vars

\* The latest call is in flight and no reset() came after it
LatestInFlight ==
    /\ calls # <<>>
    /\ calls[Len(calls)].pending
    /\ ~calls[Len(calls)].superseded

\* C25: the hook's state reflects the most recently issued operation only.
\* The completion of a call that a newer summarizeArticle or a reset() has
\* followed changes nothing of the hook's state; result and error are never
\* both set; and isLoading is true exactly while the latest call is in flight.
C25_LatestOperationOnly ==
    /\ [][\A k \in DOMAIN calls :
             (calls[k].pending /\ ~calls'[k].pending /\ calls[k].superseded)
                => hook' = hook]_vars
    /\ [](~(hook.result # Null /\ hook.error # Null))
    /\ [](hook.isLoading <=> LatestInFlight)
-----------------------------------------------------------------------------
(* useThrottle (performance.ts:23-51), as useScrollHandler uses it. Time is
   Date.now() in units of the model; a timer set with setTimeout fires at
   its due time or later, whenever the event loop gets to it. *)

\* The delays the hook is created with
Delays == {2, 3}

\* performance.ts:30-31: the refs of a hook created with this delay. Date.now()
\* is at least delay past 0, the initial lastCall; invoked lists the times at
\* which callback ran.
ThrottleInitial(ms) ==
    [delay         |-> ms,
     now           |-> ms,
     lastCall      |-> 0,
     lastCallTimer |-> [pending |-> FALSE, due |-> 0],
     invoked       |-> <<>>]

\* performance.ts:34-47: a call of the throttled function
ThrottledCall(t) ==
    IF t.now - t.lastCall >= t.delay
    THEN [t EXCEPT !.invoked = Append(@, t.now),
                   !.lastCall = t.now]
    ELSE [t EXCEPT !.lastCallTimer =
                      [pending |-> TRUE,
                       due     |-> t.now + (t.delay - (t.now - t.lastCall))]]

\* performance.ts:43-46: the body of the timer
TimerFired(t) ==
    [t EXCEPT !.invoked = Append(@, t.now),
              !.lastCall = t.now,
              !.lastCallTimer.pending = FALSE]

InitThrottle ==
    /\ ServerIdle
    /\ langchainGemini = TRUE
    /\ SvcIdle
    /\ ParserIdle
    /\ allText = Null
    /\ AppIdle
    /\ \E ms \in Delays : throttle = ThrottleInitial(ms)

\* A scroll event reaches the throttled handler
Call ==
    /\ throttle' = ThrottledCall(throttle)
    /\ UNCHANGED <<serverVars, langchainGemini, svc, parseVars, allText, appVars>>

\* The event loop runs the pending timer, at its due time or later
TimerFires ==
    /\ throttle.lastCallTimer.pending
    /\ throttle.now >= throttle.lastCallTimer.due
    /\ throttle' = TimerFired(throttle)
    /\ UNCHANGED <<serverVars, langchainGemini, svc, parseVars, allText, appVars>>

\* Date.now() advances
Elapse ==
    /\ throttle.now < throttle.delay + MaxElapsed
    /\ throttle' = [throttle EXCEPT !.now = @ + 1]
    /\ UNCHANGED <<serverVars, langchainGemini, svc, parseVars, allText, appVars>>

NextThrottle ==
    \/ Call
    \/ TimerFires
    \/ Elapse

SpecThrottle == InitThrottle /\ [][NextThrottle]_vars

\* C29: the throttled function never invokes callback twice less than delay
\* apart, whatever the sequence of calls and timer firings.
C29_NeverTwiceWithinDelay ==
    \A i \in 1..(Len(throttle.invoked) - 1) :
       throttle.invoked[i + 1] - throttle.invoked[i] >= throttle.delay
-----------------------------------------------------------------------------
(* AnalyticsProvider (AnalyticsContext.tsx:45-128) with the components that
   call its track functions. The track functions are created at each render
   of the provider and close over the analytics of that render; setAnalytics
   takes effect at the next render. *)

Events == {"search", "team_view", "summary"}

\* AnalyticsContext.tsx:46-60: the provider after its mount effect found
\* nothing saved. analytics is the React state, rendered the analytics the
\* current track functions closed over, held the analytics of the
\* trackSummary a running handleSummarization holds across its await, and
\* tracked the track calls made so far.
InitAnalytics ==
    /\ ServerIdle
    /\ langchainGemini = TRUE
    /\ SvcIdle
    /\ ParserIdle
    /\ allText = Null
    /\ throttle = Null
    /\ hook = Null
    /\ calls = <<>>
    /\ page = Null
    /\ localStorage = [analytics |-> Null]
    /\ provider = [analytics |-> defaultAnalytics,
                   rendered  |-> defaultAnalytics,
                   held      |-> [awaiting |-> FALSE, analytics |-> defaultAnalytics],
                   tracked   |-> <<>>]

\* AnalyticsContext.tsx:62-113: trackSearch / trackTeamView / trackSummary
\* and the saveAnalytics they end with
Track(event) ==
    /\ Len(provider.tracked) < MaxTracks
    /\ LET newAnalytics == Tracked(provider.rendered, event)
       IN  /\ localStorage' = [localStorage EXCEPT !.analytics = newAnalytics]
           /\ provider' = [provider EXCEPT !.analytics = newAnalytics,
                                           !.tracked = Append(@, event)]
    /\ UNCHANGED <<serverVars, langchainGemini, svc, parseVars, allText, throttle,
                   hook, calls, page>>

\* part_003:473-479: handleSummarization starts with the trackSummary of the
\* render it was created in and awaits summarizeArticle
SummarizationStarts ==
    /\ ~provider.held.awaiting
    /\ Len(provider.tracked) < MaxTracks
    /\ provider' = [provider EXCEPT !.held = [awaiting  |-> TRUE,
                                              analytics |-> provider.rendered]]
    /\ UNCHANGED <<serverVars, langchainGemini, svc, parseVars, allText, throttle,
                   hook, calls, page, localStorage>>

\* part_003:480: the await is over and handleSummarization calls the
\* trackSummary it holds
SummarizationTracks ==
    /\ provider.held.awaiting
    /\ Len(provider.tracked) < MaxTracks
    /\ LET newAnalytics == Tracked(provider.held.analytics, "summary")
       IN  /\ localStorage' = [localStorage EXCEPT !.analytics = newAnalytics]
           /\ provider' = [provider EXCEPT !.analytics = newAnalytics,
                                           !.held.awaiting = FALSE,
                                           !.tracked = Append(@, "summary")]
    /\ UNCHANGED <<serverVars, langchainGemini, svc, parseVars, allText, throttle,
                   hook, calls, page>>

\* The provider re-renders with the state setAnalytics set
Rerender ==
    /\ provider.rendered # provider.analytics
    /\ provider' = [provider EXCEPT !.rendered = provider.analytics]
    /\ UNCHANGED <<serverVars, langchainGemini, svc, parseVars, allText, throttle,
                   hook, calls, page, localStorage>>

NextAnalytics ==
    \/ \E event \in Events : Track(event)
    \/ SummarizationStarts
    \/ SummarizationTracks
    \/ Rerender

SpecAnalytics == InitAnalytics /\ [][NextAnalytics]_vars

\* The number of track calls made for an event
TrackCalls(event) ==
    Cardinality({i \in DOMAIN provider.tracked : provider.tracked[i] = event})

\* C30: no analytics event is lost. Each counter equals the number of calls
\* of its track function, in memory and, once something was saved, in
\* localStorage.
C30_NoEventLost ==
    \A event \in Events :
       /\ provider.analytics[CounterOf(event)] = TrackCalls(event)
       /\ provider.tracked # <<>> =>
             localStorage.analytics[CounterOf(event)] = TrackCalls(event)

=============================================================================
